---------------------------- MODULE Spec2Model ----------------------------
(***************************************************************************)
(* RecordingManager (src/recording.js) of the CodeGuard extension: the     *)
(* IndexedDB chunk store, the per-chunk upload status, and the deferred,   *)
(* cancellable cleanup sweep, driven by the message handlers of the        *)
(* background service worker.                                              *)
(*                                                                         *)
(* Granularity.  The worker is single-threaded; a handler runs until it    *)
(* awaits.  An IndexedDB transaction is atomic, and transactions on the    *)
(* 'chunks' store take effect in the order in which they were created, so  *)
(* one action of this module is one transaction together with the         *)
(* synchronous code that creates it and the synchronous code that follows  *)
(* the previous await.  Between two transactions of one operation the      *)
(* transactions of other operations may run.  The store handle is taken    *)
(* to be open already (openDB, line 38, returns the cached handle),        *)
(* except in StoreSpec, which follows openDB and the transaction of        *)
(* updateChunkStatus step by step.                                         *)
(*                                                                         *)
(* Spec is the store with the cleanup timers; SessionSpec is the session   *)
(* (event log, registration, upload status, chunk list) with restarts of   *)
(* the service worker, which empty the memory and keep the stores.         *)
(* KeySpec has sessions whose ids contain the separator of the chunk key,  *)
(* RecordSpec the start and the end of a recording, CleanupSpec the        *)
(* timers of several rooms, UploadSpec the UPLOAD_CHUNK handler with its   *)
(* fetch, StoreSpec overlapping calls from the first use of the database.  *)
(*                                                                         *)
(* EndSpec is a session that ends while the cleanup of its room is         *)
(* scheduled, LateSpec the confirmations of uploads that arrive after a    *)
(* sweep, AgainSpec a recording started again in the same room.            *)
(*                                                                         *)
(* The rest of the worker: ExamSpec is the flag examActive under the       *)
(* messages of an exam, FlagSpec the reports of violations                 *)
(* (tabs.onUpdated, PASTE_VIOLATION), WhitelistSpec fetchWhitelist and its *)
(* callers, EnvSpec the cached API URL of config.js over starts of the     *)
(* worker, RecorderSpec the ScreenRecorder (src/screenRecorder.js). In     *)
(* these, chrome.storage.local serves the calls of the worker in the order *)
(* in which they are issued: a write takes effect where it is issued, a    *)
(* read returns the values of that moment, and the code after its await is *)
(* a later action, so other handlers run between a read and the use of     *)
(* what was read.                                                          *)
(*                                                                         *)
(* Identifiers are JavaScript strings, modelled as tuples of one-character *)
(* strings; NULL (the empty tuple) stands for null/undefined.  The opaque  *)
(* pass-through fields of a chunk (startTime, endTime, duration,           *)
(* sizeBytes, savedAt, updatedAt) travel with the blob and are not         *)
(* modelled separately.                                                    *)
(***************************************************************************)
EXTENDS Integers, Sequences, FiniteSets, TLC

\* ------------------------------------------------------------------ bounds
\* Number of messages (API calls) handled in one run.
MaxCalls == 6
\* Number of setTimeout handles handed out in one run.
MaxTimers == 3
\* Number of events addEvent appends to one session's log.
MaxEvents == 2
\* Number of store operations in flight at once in one lifetime of the worker.
MaxProcs == 2
\* Number of uploads (fetch) in flight at once.
MaxFetches == 2
\* Number of violation reports (navigation, paste) in flight at once.
MaxFlags == 2
\* Number of fetchWhitelist calls in flight at once, where the exam's messages
\* are looked at.
MaxLists == 1
\* Number of startRecording calls of the ScreenRecorder in one run.
MaxStarts == 3

\* ------------------------------------------------------------- input sets
NULL == <<>>
Rooms == {<<"a">>}
Students == {<<"s">>}
\* Ids that contain the separator of the chunk key.
KeyRooms == {<<"a">>, <<"a", "_", "b">>}
KeyStudents == {<<"s">>, <<"b", "_", "s">>}
AllRooms == Rooms \cup KeyRooms
\* Two sessions (room, student) of different rooms.
KeySessions == {<<<<"a", "_", "b">>, <<"s">>>>, <<<<"a">>, <<"b", "_", "s">>>>}
Indices == {0, 1}
Blobs == {"blob1"}
Urls == {"url1"}
NoUrl == "none"
\* The url of the server's answer (result.url): a string, or none.
Refs == {"url1", "url2", NoUrl}
EventTypes == {"tab_switch"}

\* CONFIG.CHUNK_DURATION_MS
CHUNK_DURATION_MS == 600000

\* Date.now() - this.examStartTime at the calls of addEvent: the last
\* millisecond of window 0, the first of window 1, the first of window 2.
Offsets == {CHUNK_DURATION_MS - 1, CHUNK_DURATION_MS, 2 * CHUNK_DURATION_MS}

VARIABLES
  chunks,         \* object store CONFIG.STORE_NAME: chunkId -> record
  metadata,       \* object store CONFIG.META_STORE: roomId -> record
  storageRoomId,  \* chrome.storage.local 'roomId'
  examRoomId,     \* this.examRoomId
  studentId,      \* this.studentId
  isRecording,    \* this.isRecording
  events,         \* this.events
  chunkMetadata,  \* this.chunkMetadata
  cleanupTimers,  \* this.cleanupTimers: roomId -> timer handle (0: no entry)
  timers,         \* the timers created by setTimeout and their callbacks
  nextTimer,      \* next handle setTimeout returns
  upl,            \* the getChunkForUpload call in flight
  lst,            \* the getChunkList call in flight
  resp,           \* what the step just taken returned to its caller
  calls,          \* number of calls handled so far
  cancelledEarly, \* rooms whose cleanup was cancelled while pending, not rescheduled since
  cancelledTrue,  \* timers whose handle was in the map when cancelCleanup returned true
  interfered,     \* running sweeps whose room's chunks were written by someone else
  sessionLog,     \* room of the last initRecording, and the events appended since
  db,             \* this.db: the connection held (0: null)
  opens,          \* number of indexedDB.open calls of this lifetime of the worker
  procs,          \* the store operations in flight, from their openDB on
  fetches,        \* the chunks of the uploads (fetch of UPLOAD_CHUNK) in flight
  local,          \* chrome.storage.local: studentId, examActive, whitelist, apiBaseUrl
  es,             \* the EXAM_STARTED handler in flight
  wl,             \* the fetchWhitelist calls of START_EXAM and REFRESH_WHITELIST in flight
  flags,          \* the violation reports (tabs.onUpdated, PASTE_VIOLATION) in flight
  posted,         \* the reports sent to /api/proctoring/flag, with the stored flag then
  phase,          \* of the exam: none, starting (EXAM_STARTED wrote the flag), started
                  \* (it answered), ended (END_EXAM), stopped (STOP_MONITORING)
  cachedApiBaseUrl, \* config.js: cachedApiBaseUrl
  initFromStorage,  \* config.js: the initializeFromStorage call of this start of the worker
  envLog,         \* what the last message with a sender URL made of the cache, if any
  recorder        \* the ScreenRecorder object and its startRecording calls in flight

vars == <<chunks, metadata, storageRoomId, examRoomId, studentId, isRecording,
          events, chunkMetadata, cleanupTimers, timers, nextTimer, upl, lst, resp,
          calls, cancelledEarly, cancelledTrue, interfered, sessionLog,
          db, opens, procs, fetches, local, es, wl, flags, posted, phase,
          cachedApiBaseUrl, initFromStorage, envLog, recorder>>

sessionVars == <<examRoomId, studentId, isRecording, events, chunkMetadata>>
timerVars == <<cleanupTimers, timers, nextTimer>>
histVars == <<cancelledEarly, cancelledTrue, interfered>>
ioVars == <<db, opens, procs, fetches>>
examVars == <<local, es, wl, flags, posted, phase>>
envVars == <<cachedApiBaseUrl, initFromStorage, envLog>>
workerVars == <<examVars, envVars, recorder>>


\* ---------------------------------------------------------------- strings
\* UTF-16 code unit of the characters that occur in identifiers.
Code(c) ==
  CASE c = "0" -> 48 [] c = "1" -> 49 [] c = "2" -> 50 [] c = "3" -> 51
    [] c = "4" -> 52 [] c = "5" -> 53 [] c = "6" -> 54 [] c = "7" -> 55
    [] c = "8" -> 56 [] c = "9" -> 57 [] c = "_" -> 95 [] c = "a" -> 97
    [] c = "b" -> 98 [] c = "l" -> 108 [] c = "n" -> 110 [] c = "s" -> 115
    [] c = "u" -> 117

\* JavaScript's < on strings.
RECURSIVE StrLess(_, _)
StrLess(x, y) ==
  IF y = <<>> THEN FALSE
  ELSE IF x = <<>> THEN TRUE
  ELSE IF Head(x) = Head(y) THEN StrLess(Tail(x), Tail(y))
  ELSE Code(Head(x)) < Code(Head(y))

\* Number.prototype.toString for a non-negative integer.
DigitChars == <<"0", "1", "2", "3", "4", "5", "6", "7", "8", "9">>
RECURSIVE NumToStr(_)
NumToStr(n) ==
  IF n < 10 THEN <<DigitChars[n + 1]>>
  ELSE NumToStr(n \div 10) \o <<DigitChars[(n % 10) + 1]>>

\* A value interpolated in a template literal: null prints as "null".
ToStr(x) == IF x = NULL THEN <<"n", "u", "l", "l">> ELSE x

\* `${this.examRoomId}_${this.studentId}_${chunkIndex}`
ChunkId(room, student, chunkIndex) ==
  ToStr(room) \o <<"_">> \o ToStr(student) \o <<"_">> \o NumToStr(chunkIndex)

\* The chunk ids a caller names: those of the chunks it was given (line 414 of
\* the worker passes the chunkId getChunkForUpload returned).
AllChunkIds == {ChunkId(r, st, i) : r \in Rooms, st \in Students, i \in Indices}

\* ------------------------------------------------------------ chunk store
\* Order of the list getChunksByRoom resolves with: the roomId index yields the
\* records in primary-key order, and the stable sort orders them by chunkIndex.
ChunkBefore(x, y) ==
  \/ x.chunkIndex < y.chunkIndex
  \/ x.chunkIndex = y.chunkIndex /\ StrLess(x.chunkId, y.chunkId)

RECURSIVE SortChunks(_)
SortChunks(S) ==
  IF S = {} THEN <<>>
  ELSE LET m == CHOOSE x \in S : \A y \in S \ {x} : ChunkBefore(x, y)
       IN <<m>> \o SortChunks(S \ {m})

\* Mutant of GetChunksByRoom: the roomId index is not used, every record is returned.
GetChunksByRoom_AllRooms(st, roomId) ==
  SortChunks({st[k] : k \in DOMAIN st})

\* getChunksByRoom(roomId) on store contents st, for a roomId that is a valid key.
\* A record whose roomId is null has no entry in the roomId index.
GetChunksByRoom(st, roomId) ==
  SortChunks({st[k] : k \in {j \in DOMAIN st : st[j].roomId = roomId}})

\* Mutant of PutChunk: a record whose key is taken is added under a new key.
PutChunk_Duplicate(st, rec) ==
  LET new == IF rec.chunkId \in DOMAIN st
             THEN [rec EXCEPT !.chunkId = @ \o <<"_">>]
             ELSE rec
  IN [k \in DOMAIN st \cup {new.chunkId} |-> IF k = new.chunkId THEN new ELSE st[k]]

\* store.put(record), keyPath chunkId
PutChunk(st, rec) ==
  [k \in DOMAIN st \cup {rec.chunkId} |-> IF k = rec.chunkId THEN rec ELSE st[k]]

\* saveMetadata(roomId, metadata): store.put({ roomId, ...metadata }), keyPath roomId
SaveMetadata(st, roomId, rec) ==
  [r \in DOMAIN st \cup {roomId} |-> IF r = roomId THEN rec ELSE st[r]]

\* store.delete(key) for every key of ks; deleting an absent key succeeds.
DeleteChunks(st, ks) == [k \in DOMAIN st \ ks |-> st[k]]

\* Mutant of UpdatedChunk: a status write without a url puts the chunk back to 'stored'.
UpdatedChunk_Revert(chunk, status, url) ==
  [chunk EXCEPT !.status = IF url # NoUrl THEN status ELSE "stored",
                !.uploadedUrl = IF url # NoUrl THEN url ELSE @]

\* The record updateChunkStatus puts back (lines 148-149).
UpdatedChunk(chunk, status, url) ==
  [chunk EXCEPT !.status = status,
                !.uploadedUrl = IF url # NoUrl THEN url ELSE @]

\* Mutant of FindByIndex: without a hit the first chunk of the list is taken.
FindByIndex_First(list, chunkIndex) ==
  LET hits == {n \in 1..Len(list) : list[n].chunkIndex = chunkIndex}
  IN IF hits = {} THEN (IF list = <<>> THEN NULL ELSE list[1])
     ELSE list[CHOOSE n \in hits : \A m \in hits : n <= m]

\* Array.prototype.find: the first element with the property, NULL if none.
FindByIndex(list, chunkIndex) ==
  LET hits == {n \in 1..Len(list) : list[n].chunkIndex = chunkIndex}
  IN IF hits = {} THEN NULL
     ELSE list[CHOOSE n \in hits : \A m \in hits : n <= m]

\* chunks.some(c => c.status === 'uploaded')
HasUploaded(list) == \E n \in 1..Len(list) : list[n].status = "uploaded"

\* Mutant of IdsOf: only the chunks still 'stored' are deleted.
IdsOf_StoredOnly(list) ==
  {list[n].chunkId : n \in {m \in 1..Len(list) : list[m].status = "stored"}}

\* Mutant of UnuploadedOf: the filter of line 193 is missing.
UnuploadedOf_NoFilter(list) == {list[n].chunkId : n \in 1..Len(list)}

\* The chunk ids of a list, and of its entries that are not 'uploaded' (line 193).
IdsOf(list) == {list[n].chunkId : n \in 1..Len(list)}
UnuploadedOf(list) ==
  {list[n].chunkId : n \in {m \in 1..Len(list) : list[m].status # "uploaded"}}

\* Mutant of ChunkEvents: the upper bound of the window is inclusive.
ChunkEvents_Inclusive(evs, chunkIndex) ==
  SelectSeq(evs, LAMBDA e :
    /\ e.timestamp >= chunkIndex * CHUNK_DURATION_MS
    /\ e.timestamp <= (chunkIndex + 1) * CHUNK_DURATION_MS)

\* The events of a chunk's window (lines 289-293).
ChunkEvents(evs, chunkIndex) ==
  SelectSeq(evs, LAMBDA e :
    /\ e.timestamp >= chunkIndex * CHUNK_DURATION_MS
    /\ e.timestamp < (chunkIndex + 1) * CHUNK_DURATION_MS)

\* Mutant of UploadResult: the stored record is returned as it is.
UploadResult_WholeRecord(chunk) == chunk

\* What getChunkForUpload returns for a chunk (lines 367-378).
UploadResult(chunk) ==
  [chunkId |-> chunk.chunkId, chunkIndex |-> chunk.chunkIndex,
   roomId |-> chunk.roomId, studentId |-> chunk.studentId,
   events |-> chunk.events, blob |-> chunk.blob]

\* ----------------------------------------------------------------- timers
\* A timer's callback is running: it has fired and not yet returned.
Running == {"decide", "delete", "finish"}
TimerIds == 1..MaxTimers
IdleTimer == [room |-> NULL, pc |-> "unused", mode |-> "none", list |-> <<>>, del |-> {}]
NoResp == [op |-> "none"]
IdleUpload == [pc |-> "idle", chunkIndex |-> 0, chunk |-> NULL]
IdleList == [pc |-> "idle"]
Procs == 1..MaxProcs
IdleProc == [pc |-> "idle", conn |-> 0, seq |-> 0, chunkId |-> NULL, status |-> "none",
             url |-> NoUrl, chunk |-> NULL]

\* The running sweeps of a room, other than self, see a write of another operation.
Touch(roomId, self) ==
  interfered \cup {t \in TimerIds : /\ t # self
                                    /\ timers[t].room = roomId
                                    /\ timers[t].pc \in Running}

EmptyStore == [k \in {} |-> NULL]

\* ------------------------------------------- the worker's state beside it
\* chrome.storage.local 'examActive': no such key, true, false.
NoFlag == "unset"
\* config.js: PROD_CONFIG.API_BASE_URL, DEV_CONFIG.API_BASE_URL, no stored value.
ProdApi == "https://codeguardserverside.onrender.com"
DevApi == "http://localhost:3000"
NoApi == "none"

FlagIds == 1 .. MaxFlags
StartIds == 1 .. MaxStarts

IdleExamStarted == [pc |-> "idle", msgRoom |-> NULL, examActive |-> NoFlag, roomId |-> NULL]
IdleFlag == [pc |-> "idle", kind |-> "none", go |-> FALSE, studentId |-> NULL,
             roomId |-> NULL, examActive |-> NoFlag]
IdleStart == [pc |-> "idle", examInfo |-> NULL]

\* new ScreenRecorder() (screenRecorder.js lines 16-26), with the clock of the
\* page (Date.now()), its startRecording calls and its stopRecording call.
InitRecorder ==
  [isRecording |-> FALSE, startTime |-> 0, examInfo |-> NULL, chunkCount |-> 0,
   recordedBlobs |-> <<>>, now |-> 1, starts |-> [i \in StartIds |-> IdleStart],
   stopping |-> FALSE]

\* The worker just started, over a chrome.storage.local without the keys:
\* cachedApiBaseUrl has its default (config.js line 69) and the storage read
\* of initializeFromStorage (worker line 24) is on its way.
InitWorker ==
  /\ local = [studentId |-> NULL, examActive |-> NoFlag, whitelist |-> NULL,
              apiBaseUrl |-> NoApi]
  /\ es = IdleExamStarted
  /\ wl = {}
  /\ flags = [i \in FlagIds |-> IdleFlag]
  /\ posted = <<>>
  /\ phase = "none"
  /\ cachedApiBaseUrl = ProdApi
  /\ initFromStorage = [pc |-> "get", apiBaseUrl |-> NoApi]
  /\ envLog = NULL
  /\ recorder = InitRecorder

\* The object of the constructor, over a database without sessions' metadata.
InitManager ==
  /\ metadata = EmptyStore
  /\ storageRoomId = NULL
  /\ examRoomId = NULL
  /\ studentId = NULL
  /\ isRecording = FALSE
  /\ events = <<>>
  /\ chunkMetadata = <<>>
  /\ cleanupTimers = [r \in AllRooms |-> 0]
  /\ timers = [t \in TimerIds |-> IdleTimer]
  /\ nextTimer = 1
  /\ upl = IdleUpload
  /\ lst = IdleList
  /\ resp = NoResp
  /\ calls = 0
  /\ cancelledEarly = {}
  /\ cancelledTrue = {}
  /\ interfered = {}
  /\ sessionLog = [room |-> NULL, events |-> <<>>]
  /\ db = 0
  /\ opens = 0
  /\ procs = [p \in Procs |-> IdleProc]
  /\ fetches = <<>>
  /\ InitWorker

Init ==
  /\ chunks = EmptyStore
  /\ InitManager


\* ------------------------------------------------------- message handlers
\* START_EXAM (worker lines 64-92): chrome.storage.local.set({studentId, ...,
\* roomId: message.roomId, examActive: false}), then fetchWhitelist(message.roomId),
\* which with a room id runs up to its fetch (line 498). The content script
\* sends the message with the ids of its sessionStorage (content.js 54-87).
\* The calls of fetchWhitelist in the same state are kept once in wl.
\* The flag of an exam that was on is written too: phase is left as it is.
StartExam(roomId) ==
  /\ calls < MaxCalls
  /\ calls' = calls + 1
  /\ IF roomId # NULL
       THEN /\ storageRoomId' = roomId
            /\ wl' = wl \cup {[pc |-> "fetch", roomId |-> roomId, from |-> "START_EXAM"]}
       ELSE \* roomId: undefined is a value the storage cannot keep: the key
            \* stays or goes; fetchWhitelist reads it (line 486)
            /\ storageRoomId' \in {storageRoomId, NULL}
            /\ wl' = wl \cup {[pc |-> "storage", roomId |-> storageRoomId',
                                from |-> "START_EXAM"]}
  /\ \E st \in Students : local' = [local EXCEPT !.studentId = st, !.examActive = "false"]
  /\ resp' = NoResp
  /\ UNCHANGED <<ioVars, lst, sessionLog, chunks, metadata, sessionVars, timerVars, upl, histVars>>
  /\ UNCHANGED <<es, flags, posted, phase, envVars, recorder>>

\* Mutant of InitRecording: the events and the ledger of the session before are kept.
InitRecording_KeepLog(roomId, student) ==
  /\ calls < MaxCalls
  /\ calls' = calls + 1
  /\ examRoomId' = roomId
  /\ studentId' = student
  /\ events' = IF events = <<>> THEN <<[type |-> "exam_start", timestamp |-> 0]>> ELSE events
  /\ chunkMetadata' = chunkMetadata
  /\ isRecording' = TRUE
  /\ metadata' = SaveMetadata(metadata, roomId,
                              [studentId |-> student, events |-> events',
                               status |-> "recording"])
  /\ resp' = NoResp
  /\ sessionLog' = [room |-> roomId, events |-> events']
  /\ UNCHANGED <<ioVars, lst, chunks, storageRoomId, workerVars, timerVars, upl, histVars>>

\* initRecording(roomId, studentId)
InitRecording(roomId, student) ==
  /\ calls < MaxCalls
  /\ calls' = calls + 1
  /\ examRoomId' = roomId
  /\ studentId' = student
  /\ events' = <<[type |-> "exam_start", timestamp |-> 0]>>
  /\ chunkMetadata' = <<>>
  /\ isRecording' = TRUE
  /\ metadata' = [r \in DOMAIN metadata \cup {roomId} |->
                    IF r = roomId
                    THEN [studentId |-> student, events |-> events', status |-> "recording"]
                    ELSE metadata[r]]
  /\ resp' = NoResp
  /\ sessionLog' = [room |-> roomId, events |-> events']
  /\ UNCHANGED <<ioVars, lst, chunks, storageRoomId, workerVars, timerVars, upl, histVars>>

\* registerChunk(chunkIndex, startTime, endTime, duration, blob)
RegisterChunk(chunkIndex, blob) ==
  /\ calls < MaxCalls
  /\ calls' = calls + 1
  /\ LET chunkData == [chunkId |-> ChunkId(examRoomId, studentId, chunkIndex),
                       chunkIndex |-> chunkIndex,
                       roomId |-> examRoomId,
                       studentId |-> studentId,
                       status |-> "stored",
                       events |-> ChunkEvents(events, chunkIndex),
                       blob |-> blob,
                       uploadedUrl |-> NoUrl]
     IN /\ chunks' = PutChunk(chunks, chunkData)
        /\ chunkMetadata' = Append(chunkMetadata, chunkData.chunkId)
        /\ resp' = NoResp
        /\ interfered' = Touch(examRoomId, 0)
  /\ UNCHANGED <<ioVars, lst, sessionLog, metadata, storageRoomId, workerVars, examRoomId, studentId, isRecording, events,
                 timerVars, upl, cancelledEarly, cancelledTrue>>

\* Mutant of UpdateChunkStatus: a record is put also when none was found.
UpdateChunkStatus_Upsert(st, chunkId, status, url) ==
  IF chunkId \in DOMAIN st
  THEN PutChunk(st, UpdatedChunk(st[chunkId], status, url))
  ELSE PutChunk(st, [chunkId |-> chunkId, status |-> status, uploadedUrl |-> url])

\* updateChunkStatus(chunkId, status, url): one readwrite transaction.
\* The store afterwards; unchanged when the chunk is not found.
UpdateChunkStatus(st, chunkId, status, url) ==
  IF chunkId \in DOMAIN st
  THEN PutChunk(st, UpdatedChunk(st[chunkId], status, url))
  ELSE st

\* markChunkUploaded(chunkId, url)
MarkChunkUploaded(chunkId, url) ==
  /\ calls < MaxCalls
  /\ calls' = calls + 1
  /\ chunks' = UpdateChunkStatus(chunks, chunkId, "uploaded", url)
  /\ resp' = [op |-> "markChunkUploaded", ok |-> chunkId \in DOMAIN chunks,
              chunkId |-> chunkId, url |-> url]
  /\ interfered' = IF chunkId \in DOMAIN chunks
                   THEN Touch(chunks[chunkId].roomId, 0)
                   ELSE interfered
  /\ UNCHANGED <<ioVars, lst, sessionLog, metadata, storageRoomId, workerVars, sessionVars, timerVars, upl,
                 cancelledEarly, cancelledTrue>>

\* getChunkForUpload from line 356 on, with the room resolved: the lookup.
UploadLookup(roomId, chunkIndex) ==
  LET chunk == FindByIndex(GetChunksByRoom(chunks, roomId), chunkIndex)
  IN IF chunk = NULL
     THEN /\ upl' = IdleUpload
          /\ resp' = [op |-> "getChunkForUpload", ok |-> FALSE, error |-> "not found",
                      chunkIndex |-> chunkIndex]
     ELSE /\ upl' = [pc |-> "update", chunkIndex |-> chunkIndex, chunk |-> chunk]
          /\ resp' = NoResp

\* getChunkForUpload(chunkIndex), up to its first await that suspends.
GetChunkForUpload(chunkIndex) ==
  /\ calls < MaxCalls
  /\ calls' = calls + 1
  /\ upl.pc = "idle"
  /\ IF examRoomId # NULL
     THEN UploadLookup(examRoomId, chunkIndex)
     ELSE /\ upl' = [pc |-> "storage", chunkIndex |-> chunkIndex, chunk |-> NULL]
          /\ resp' = NoResp
  /\ UNCHANGED <<ioVars, lst, sessionLog, chunks, metadata, storageRoomId, workerVars, sessionVars, timerVars, histVars>>

\* Mutant of UploadStorage: the check of line 352 is missing.
UploadStorage_NoCheck ==
  /\ upl.pc = "storage"
  /\ \E failed \in BOOLEAN :
       LET roomId == IF failed THEN NULL ELSE storageRoomId
       IN /\ examRoomId' = IF roomId # NULL THEN roomId ELSE examRoomId
          /\ UploadLookup(roomId, upl.chunkIndex)
  /\ UNCHANGED <<ioVars, lst, sessionLog, chunks, metadata, storageRoomId, workerVars, studentId, isRecording,
                 events, chunkMetadata, timerVars, calls, histVars>>

\* getChunkForUpload after chrome.storage.local.get (lines 341-356); the read may throw.
UploadStorage ==
  /\ upl.pc = "storage"
  /\ \E failed \in BOOLEAN :
       LET roomId == IF failed THEN NULL ELSE storageRoomId
       IN /\ examRoomId' = IF roomId # NULL THEN roomId ELSE examRoomId
          /\ IF roomId = NULL
             THEN /\ upl' = IdleUpload
                  /\ resp' = [op |-> "getChunkForUpload", ok |-> FALSE,
                              error |-> "no active exam room",
                              chunkIndex |-> upl.chunkIndex]
             ELSE UploadLookup(roomId, upl.chunkIndex)
  /\ UNCHANGED <<ioVars, lst, sessionLog, chunks, metadata, storageRoomId, workerVars, studentId, isRecording, events,
                 chunkMetadata, timerVars, calls, histVars>>

\* getChunkForUpload, lines 364-378: updateChunkStatus(chunk.chunkId, 'uploading')
\* and the return of the chunk that the lookup found.
UploadUpdate ==
  /\ upl.pc = "update"
  /\ chunks' = UpdateChunkStatus(chunks, upl.chunk.chunkId, "uploading", NoUrl)
  /\ resp' = IF upl.chunk.chunkId \in DOMAIN chunks
             THEN [op |-> "getChunkForUpload", ok |-> TRUE,
                   value |-> UploadResult(upl.chunk)]
             ELSE [op |-> "getChunkForUpload", ok |-> FALSE, error |-> "not found",
                   chunkIndex |-> upl.chunkIndex]
  /\ interfered' = IF upl.chunk.chunkId \in DOMAIN chunks
                   THEN Touch(upl.chunk.roomId, 0)
                   ELSE interfered
  /\ upl' = IdleUpload
  /\ UNCHANGED <<ioVars, lst, sessionLog, metadata, storageRoomId, workerVars, sessionVars, timerVars, calls,
                 cancelledEarly, cancelledTrue>>


\* ---------------------------------------------------------------- cleanup
\* clearTimeout(handle): a timer that has not fired never will; otherwise nothing.
ClearTimeout(tm, handle) ==
  IF handle # 0 /\ tm[handle].pc = "pending"
  THEN [tm EXCEPT ![handle].pc = "cleared"]
  ELSE tm

\* scheduleCleanup(roomId, delayMs); the delay is any time.
ScheduleCleanup(roomId) ==
  /\ calls < MaxCalls
  /\ calls' = calls + 1
  /\ nextTimer <= MaxTimers
  /\ timers' = [ClearTimeout(timers, cleanupTimers[roomId]) EXCEPT
                  ![nextTimer] = [IdleTimer EXCEPT !.room = roomId, !.pc = "pending"]]
  /\ cleanupTimers' = [cleanupTimers EXCEPT ![roomId] = nextTimer]
  /\ nextTimer' = nextTimer + 1
  /\ resp' = NoResp
  /\ cancelledEarly' = cancelledEarly \ {roomId}
  /\ UNCHANGED <<ioVars, lst, sessionLog, chunks, metadata, storageRoomId, workerVars, sessionVars, upl,
                 cancelledTrue, interfered>>

\* A cleanup of the room is scheduled and has not fired.
CleanupPending(roomId) ==
  \E t \in TimerIds : timers[t].room = roomId /\ timers[t].pc = "pending"

\* A sweep of the room has fired and is still on its way.
SweepRunning(roomId) ==
  \E t \in TimerIds : timers[t].room = roomId /\ timers[t].pc \in Running

\* cancelCleanup(roomId)
CancelCleanup(roomId) ==
  /\ calls < MaxCalls
  /\ calls' = calls + 1
  /\ LET handle == cleanupTimers[roomId]
     IN /\ timers' = ClearTimeout(timers, handle)
        /\ cleanupTimers' = [cleanupTimers EXCEPT ![roomId] = 0]
        /\ resp' = [op |-> "cancelCleanup", roomId |-> roomId, value |-> handle # 0]
        /\ cancelledTrue' = IF handle # 0 /\ timers[handle].pc # "ended"
                            THEN cancelledTrue \cup {handle}
                            ELSE cancelledTrue
  /\ cancelledEarly' = IF CleanupPending(roomId) /\ ~SweepRunning(roomId)
                       THEN cancelledEarly \cup {roomId}
                       ELSE cancelledEarly
  /\ UNCHANGED <<ioVars, lst, sessionLog, chunks, metadata, storageRoomId, workerVars, sessionVars, nextTimer, upl,
                 interfered>>

\* The timer fires: the callback starts and reads the room's chunks (line 439).
TimerFire(t) ==
  /\ timers[t].pc = "pending"
  /\ timers' = [timers EXCEPT ![t].pc = "decide",
                              ![t].list = GetChunksByRoom(chunks, timers[t].room)]
  /\ resp' = NoResp
  /\ UNCHANGED <<ioVars, lst, sessionLog, chunks, metadata, storageRoomId, workerVars, sessionVars, cleanupTimers,
                 nextTimer, upl, calls, histVars>>

\* Lines 440-453 and the second read, inside deleteChunksByRoom (line 167) or
\* deleteUnuploadedChunks (lines 192-193).
SweepDecide(t) ==
  /\ timers[t].pc = "decide"
  /\ LET again == GetChunksByRoom(chunks, timers[t].room)
     IN IF Len(timers[t].list) = 0
        THEN /\ timers' = [timers EXCEPT ![t].pc = "ended", ![t].mode = "empty"]
             /\ cancelledTrue' = cancelledTrue \ {t}
             /\ interfered' = interfered \ {t}
        ELSE /\ timers' = IF ~HasUploaded(timers[t].list)
                          THEN [timers EXCEPT ![t].pc = "delete", ![t].mode = "all",
                                              ![t].del = IdsOf(again)]
                          ELSE [timers EXCEPT ![t].pc = "delete", ![t].mode = "partial",
                                              ![t].del = UnuploadedOf(again)]
             /\ UNCHANGED <<ioVars, lst, sessionLog, cancelledTrue, interfered>>
  /\ resp' = NoResp
  /\ UNCHANGED <<ioVars, lst, sessionLog, chunks, metadata, storageRoomId, workerVars, sessionVars, cleanupTimers,
                 nextTimer, upl, calls, cancelledEarly>>

\* The delete transaction (lines 169-186, 195-212).
SweepDelete(t) ==
  /\ timers[t].pc = "delete"
  /\ chunks' = DeleteChunks(chunks, timers[t].del)
  /\ timers' = [timers EXCEPT ![t].pc = "finish", ![t].del = {}]
  /\ interfered' = IF timers[t].del \cap DOMAIN chunks # {}
                   THEN Touch(timers[t].room, t)
                   ELSE interfered
  /\ resp' = NoResp
  /\ UNCHANGED <<ioVars, lst, sessionLog, metadata, storageRoomId, workerVars, sessionVars, cleanupTimers, nextTimer,
                 upl, calls, cancelledEarly, cancelledTrue>>

\* Line 457: delete this.cleanupTimers[roomId], and the callback returns.
SweepFinish(t) ==
  /\ timers[t].pc = "finish"
  /\ cleanupTimers' = [cleanupTimers EXCEPT ![timers[t].room] = 0]
  /\ timers' = [timers EXCEPT ![t].pc = "ended", ![t].list = <<>>]
  /\ cancelledTrue' = cancelledTrue \ {t}
  /\ interfered' = interfered \ {t}
  /\ resp' = NoResp
  /\ UNCHANGED <<ioVars, lst, sessionLog, chunks, metadata, storageRoomId, workerVars, sessionVars, nextTimer, upl,
                 calls, cancelledEarly>>

\* Mutant of SweepFail: the error is not caught and ends the worker's other timers.
SweepFail_Propagates(t) ==
  /\ timers[t].pc \in {"decide", "delete"}
  /\ timers' = [u \in TimerIds |->
                  IF u = t
                  THEN [timers[t] EXCEPT !.pc = "ended", !.mode = "failed",
                                         !.list = <<>>, !.del = {}]
                  ELSE IF timers[u].pc \in {"pending"} \cup Running
                       THEN [IdleTimer EXCEPT !.room = timers[u].room, !.pc = "cleared"]
                       ELSE timers[u]]
  /\ cancelledTrue' = cancelledTrue \ {t}
  /\ interfered' = interfered \ {t}
  /\ resp' = NoResp
  /\ UNCHANGED <<ioVars, lst, sessionLog, chunks, metadata, storageRoomId, workerVars, sessionVars, cleanupTimers,
                 nextTimer, upl, calls, cancelledEarly>>

\* A store access of the sweep fails (a read, or the delete transaction, which
\* then deletes nothing): the catch of lines 458-460 logs, and the callback returns.
SweepFail(t) ==
  /\ timers[t].pc \in {"decide", "delete"}
  /\ timers' = [timers EXCEPT ![t].pc = "ended", ![t].mode = "failed",
                              ![t].list = <<>>, ![t].del = {}]
  /\ cancelledTrue' = cancelledTrue \ {t}
  /\ interfered' = interfered \ {t}
  /\ resp' = NoResp
  /\ UNCHANGED <<ioVars, lst, sessionLog, chunks, metadata, storageRoomId, workerVars, sessionVars, cleanupTimers,
                 nextTimer, upl, calls, cancelledEarly>>

\* ---------------------------------------------------------- specification
Next ==
  \/ \E r \in Rooms : StartExam(r)
  \/ \E r \in Rooms, st \in Students : InitRecording(r, st)
  \/ \E i \in Indices, b \in Blobs : RegisterChunk(i, b)
  \/ \E k \in AllChunkIds, u \in Urls : MarkChunkUploaded(k, u)
  \/ \E i \in Indices : GetChunkForUpload(i)
  \/ UploadStorage
  \/ UploadUpdate
  \/ \E r \in Rooms : ScheduleCleanup(r)
  \/ \E r \in Rooms : CancelCleanup(r)
  \/ \E t \in TimerIds : TimerFire(t)
  \/ \E t \in TimerIds : SweepDecide(t)
  \/ \E t \in TimerIds : SweepDelete(t)
  \/ \E t \in TimerIds : SweepFinish(t)
  \/ \E t \in TimerIds : SweepFail(t)

Spec == Init /\ [][Next]_vars


\* ---------------------------------------------------------------- session
\* Mutant of AddEvent: the flag isRecording is not looked at.
AddEvent_Always(eventType, timestamp) ==
  /\ calls < MaxCalls
  /\ calls' = calls + 1
  /\ Len(events) <= MaxEvents
  /\ LET event == [type |-> eventType, timestamp |-> timestamp]
     IN /\ events' = Append(events, event)
        /\ sessionLog' = [sessionLog EXCEPT !.events = Append(@, event)]
        /\ resp' = [op |-> "addEvent", value |-> event]
  /\ UNCHANGED <<ioVars, chunks, metadata, storageRoomId, workerVars, examRoomId, studentId, isRecording,
                 chunkMetadata, timerVars, upl, lst, histVars>>

\* addEvent(eventType, details): nothing happens unless a recording is on.
AddEvent(eventType, timestamp) ==
  /\ calls < MaxCalls
  /\ calls' = calls + 1
  /\ Len(events) <= MaxEvents
  /\ LET event == [type |-> eventType, timestamp |-> timestamp]
     IN IF isRecording
        THEN /\ events' = Append(events, event)
             /\ sessionLog' = [sessionLog EXCEPT !.events = Append(@, event)]
             /\ resp' = [op |-> "addEvent", value |-> event]
        ELSE /\ UNCHANGED <<events, sessionLog>>
             /\ resp' = [op |-> "addEvent", value |-> NULL]
  /\ UNCHANGED <<ioVars, chunks, metadata, storageRoomId, workerVars, examRoomId, studentId, isRecording,
                 chunkMetadata, timerVars, upl, lst, histVars>>

\* Mutant of Summary: the status is that of the registration.
Summary_Registered(chunk) ==
  [chunkId |-> chunk.chunkId, chunkIndex |-> chunk.chunkIndex, status |-> "stored",
   events |-> chunk.events, uploadedUrl |-> chunk.uploadedUrl]

\* One entry of the list getChunkList returns (lines 414-424).
Summary(chunk) ==
  [chunkId |-> chunk.chunkId, chunkIndex |-> chunk.chunkIndex, status |-> chunk.status,
   events |-> chunk.events, uploadedUrl |-> chunk.uploadedUrl]

\* getChunkList from line 405 on: the answer for the room the call resolved
\* (NULL: none).  roomId is the room of the log line 411, not part of the value.
ListResult(roomId) ==
  LET list == IF roomId = NULL THEN <<>> ELSE GetChunksByRoom(chunks, roomId)
  IN [op |-> "getChunkList", ok |-> TRUE, roomId |-> roomId,
      value |-> [n \in 1..Len(list) |-> Summary(list[n])]]

\* getChunkList(), up to its first await that suspends.
GetChunkList ==
  /\ calls < MaxCalls
  /\ calls' = calls + 1
  /\ lst.pc = "idle"
  /\ IF examRoomId # NULL
     THEN /\ resp' = ListResult(examRoomId)
          /\ lst' = IdleList
     ELSE /\ resp' = NoResp
          /\ lst' = [pc |-> "storage"]
  /\ UNCHANGED <<ioVars, chunks, metadata, storageRoomId, workerVars, sessionVars, timerVars, upl,
                 histVars, sessionLog>>

\* Mutant of ListStorage: a call that resolves no room is answered with an error.
ListStorage_Throws ==
  /\ lst.pc = "storage"
  /\ \E failed \in BOOLEAN :
       LET roomId == IF failed THEN NULL ELSE storageRoomId
       IN /\ examRoomId' = IF roomId # NULL THEN roomId ELSE examRoomId
          /\ resp' = IF roomId = NULL
                     THEN [op |-> "getChunkList", ok |-> FALSE, roomId |-> NULL,
                           value |-> <<>>]
                     ELSE ListResult(roomId)
  /\ lst' = IdleList
  /\ UNCHANGED <<ioVars, chunks, metadata, storageRoomId, workerVars, studentId, isRecording, events,
                 chunkMetadata, timerVars, upl, calls, histVars, sessionLog>>

\* getChunkList after chrome.storage.local.get (lines 392-424); the read may throw.
ListStorage ==
  /\ lst.pc = "storage"
  /\ \E failed \in BOOLEAN :
       LET roomId == IF failed THEN NULL ELSE storageRoomId
       IN /\ examRoomId' = IF roomId # NULL THEN roomId ELSE examRoomId
          /\ resp' = ListResult(roomId)
  /\ lst' = IdleList
  /\ UNCHANGED <<ioVars, chunks, metadata, storageRoomId, workerVars, studentId, isRecording, events,
                 chunkMetadata, timerVars, upl, calls, histVars, sessionLog>>

\* The service worker is shut down and started again: the module is loaded
\* anew (line 495), the calls in flight and the timers are gone; the object
\* stores and chrome.storage.local stay.
Restart ==
  /\ calls < MaxCalls
  /\ examRoomId' = NULL
  /\ studentId' = NULL
  /\ isRecording' = FALSE
  /\ events' = <<>>
  /\ chunkMetadata' = <<>>
  /\ cleanupTimers' = [r \in AllRooms |-> 0]
  /\ timers' = [t \in TimerIds |->
                  IF timers[t].pc = "unused" THEN timers[t]
                  ELSE [IdleTimer EXCEPT !.room = timers[t].room, !.pc = "cleared"]]
  /\ upl' = IdleUpload
  /\ lst' = IdleList
  /\ resp' = NoResp
  /\ db' = 0
  /\ opens' = 0
  /\ procs' = [p \in Procs |-> IdleProc]
  /\ fetches' = <<>>
  /\ es' = IdleExamStarted
  /\ wl' = {}
  /\ flags' = [i \in FlagIds |-> IdleFlag]
  /\ cachedApiBaseUrl' = ProdApi
  /\ initFromStorage' = [pc |-> "get", apiBaseUrl |-> local.apiBaseUrl]
  /\ envLog' = NULL
  /\ UNCHANGED <<chunks, metadata, storageRoomId, nextTimer, calls, histVars, sessionLog>>
  /\ UNCHANGED <<local, posted, phase, recorder>>

\* The session operations, without the cleanup, with restarts of the worker.
\* No chunk is deleted here, so a caller names the ids of stored chunks.
SessionNext ==
  \/ \E r \in Rooms : StartExam(r)
  \/ \E r \in Rooms, st \in Students : InitRecording(r, st)
  \/ \E ty \in EventTypes, t \in Offsets : AddEvent(ty, t)
  \/ \E i \in Indices, b \in Blobs : RegisterChunk(i, b)
  \/ \E k \in DOMAIN chunks, u \in Refs : MarkChunkUploaded(k, u)
  \/ \E i \in Indices : GetChunkForUpload(i)
  \/ UploadStorage
  \/ UploadUpdate
  \/ GetChunkList
  \/ ListStorage
  \/ Restart

SessionSpec == Init /\ [][SessionNext]_vars

\* The session operations for several sessions, whose ids may contain the
\* separator of the chunk key.
KeyNext ==
  \/ \E r \in KeyRooms : StartExam(r)
  \/ \E r \in KeyRooms, st \in KeyStudents : InitRecording(r, st)
  \/ \E i \in Indices, b \in Blobs : RegisterChunk(i, b)
  \/ \E k \in DOMAIN chunks, u \in Urls : MarkChunkUploaded(k, u)
  \/ GetChunkList
  \/ ListStorage
  \/ Restart

KeySpec == Init /\ [][KeyNext]_vars

\* The cleanup of several sessions: each room has its own timer and sweep.
CleanupNext ==
  \/ \E se \in KeySessions : InitRecording(se[1], se[2])
  \/ \E b \in Blobs : RegisterChunk(0, b)
  \/ \E r \in KeyRooms : ScheduleCleanup(r)
  \/ \E t \in TimerIds : TimerFire(t)
  \/ \E t \in TimerIds : SweepDecide(t)
  \/ \E t \in TimerIds : SweepDelete(t)
  \/ \E t \in TimerIds : SweepFinish(t)
  \/ \E t \in TimerIds : SweepFail(t)

CleanupSpec == Init /\ [][CleanupNext]_vars

\* ------------------------------------------------------------ UPLOAD_CHUNK
\* The handler after getChunkForUpload has found the chunk: the status update
\* of lines 364-378 as in UploadUpdate, then the handler builds the form and
\* calls fetch (lines 387-404 of the worker).  A getChunkForUpload that throws
\* is answered by the catch of the handler (lines 418-421).
UploadChunkFetch ==
  /\ upl.pc = "update"
  /\ Len(fetches) < MaxFetches
  /\ chunks' = UpdateChunkStatus(chunks, upl.chunk.chunkId, "uploading", NoUrl)
  /\ IF upl.chunk.chunkId \in DOMAIN chunks
     THEN /\ resp' = [op |-> "getChunkForUpload", ok |-> TRUE,
                      value |-> UploadResult(upl.chunk)]
          /\ fetches' = Append(fetches, UploadResult(upl.chunk))
          /\ interfered' = Touch(upl.chunk.roomId, 0)
     ELSE /\ resp' = [op |-> "getChunkForUpload", ok |-> FALSE, error |-> "not found",
                      chunkIndex |-> upl.chunkIndex]
          /\ UNCHANGED <<fetches, interfered>>
  /\ upl' = IdleUpload
  /\ UNCHANGED <<db, opens, procs, lst, sessionLog, metadata, storageRoomId, workerVars, sessionVars,
                 timerVars, calls, cancelledEarly, cancelledTrue>>

\* The sequence without its n-th element.
Without(seq, n) == SubSeq(seq, 1, n - 1) \o SubSeq(seq, n + 1, Len(seq))

\* Mutant of UploadChunkDone: the chunk is marked before the outcome is looked at.
UploadChunkDone_Optimistic(n, outcome, url) ==
  /\ n \in 1..Len(fetches)
  /\ fetches' = Without(fetches, n)
  /\ chunks' = UpdateChunkStatus(chunks, fetches[n].chunkId, "uploaded", url)
  /\ resp' = IF outcome = "ok" /\ fetches[n].chunkId \in DOMAIN chunks
             THEN [op |-> "UPLOAD_CHUNK", success |-> TRUE, url |-> url,
                   chunkId |-> fetches[n].chunkId]
             ELSE [op |-> "UPLOAD_CHUNK", success |-> FALSE, error |-> outcome]
  /\ UNCHANGED <<db, opens, procs, lst, sessionLog, metadata, storageRoomId, workerVars, sessionVars,
                 timerVars, upl, calls, histVars>>

\* The fetch of the n-th upload in flight settles (lines 401-421 of the worker):
\* it throws, or the server answers with an error status (line 406), or it
\* answers ok with a body whose url is given; only then markChunkUploaded runs
\* (line 414), and its error, if the chunk is gone, also goes to the catch.
UploadChunkDone(n, outcome, url) ==
  /\ n \in 1..Len(fetches)
  /\ fetches' = Without(fetches, n)
  /\ IF outcome = "ok"
     THEN /\ chunks' = UpdateChunkStatus(chunks, fetches[n].chunkId, "uploaded", url)
          /\ resp' = IF fetches[n].chunkId \in DOMAIN chunks
                     THEN [op |-> "UPLOAD_CHUNK", success |-> TRUE, url |-> url,
                           chunkId |-> fetches[n].chunkId]
                     ELSE [op |-> "UPLOAD_CHUNK", success |-> FALSE, error |-> "not found"]
     ELSE /\ chunks' = chunks
          /\ resp' = [op |-> "UPLOAD_CHUNK", success |-> FALSE, error |-> outcome]
  /\ UNCHANGED <<db, opens, procs, lst, sessionLog, metadata, storageRoomId, workerVars, sessionVars,
                 timerVars, upl, calls, histVars>>

\* What the fetch does: the server accepts, refuses, or the request throws.
Outcomes == {"ok", "http error", "throws"}

\* The UPLOAD_CHUNK handler over recorded sessions, with restarts of the worker.
UploadNext ==
  \/ \E r \in Rooms : StartExam(r)
  \/ \E r \in Rooms, st \in Students : InitRecording(r, st)
  \/ \E i \in Indices, b \in Blobs : RegisterChunk(i, b)
  \/ \E i \in Indices : GetChunkForUpload(i)
  \/ UploadStorage
  \/ UploadChunkFetch
  \/ \E n \in 1..MaxFetches, o \in Outcomes, u \in Urls \cup {NoUrl} : UploadChunkDone(n, o, u)
  \/ Restart

UploadSpec == Init /\ [][UploadNext]_vars

\* ------------------------------------------------- store access, step by step
\* The record registerChunk stored for chunk 0 of room a, student s, in an
\* earlier lifetime of the worker.
StoredChunk ==
  [chunkId |-> ChunkId(<<"a">>, <<"s">>, 0), chunkIndex |-> 0, roomId |-> <<"a">>,
   studentId |-> <<"s">>, status |-> "stored", events |-> <<>>, blob |-> "blob1",
   uploadedUrl |-> NoUrl]

\* The worker starts over a database that holds the chunk.
StoreInit ==
  /\ chunks = PutChunk(EmptyStore, StoredChunk)
  /\ InitManager

\* The calls whose transaction exists and has not finished.
InTx == {q \in Procs : procs[q].pc \in {"tx", "put"}}

\* db.transaction(...): the place of the new transaction in the order of creation.
NextSeq == IF InTx = {} THEN 1
           ELSE 1 + (CHOOSE n \in {procs[q].seq : q \in InTx} :
                       \A q \in InTx : procs[q].seq <= n)

\* updateChunkStatus(chunkId, status, url) up to the point where it waits:
\* openDB returns the connection held (line 38) and the transaction is
\* created (line 140), or openDB calls indexedDB.open (line 41).
UpdateCall(p, chunkId, status, url) ==
  /\ calls < MaxCalls
  /\ calls' = calls + 1
  /\ procs[p].pc = "idle"
  /\ IF db # 0
     THEN /\ procs' = [procs EXCEPT ![p] = [IdleProc EXCEPT !.pc = "tx", !.seq = NextSeq,
                                             !.chunkId = chunkId, !.status = status,
                                             !.url = url]]
          /\ opens' = opens
     ELSE /\ procs' = [procs EXCEPT ![p] = [IdleProc EXCEPT !.pc = "opening",
                                             !.conn = opens + 1,
                                             !.chunkId = chunkId, !.status = status,
                                             !.url = url]]
          /\ opens' = opens + 1
  /\ resp' = NoResp
  /\ UNCHANGED <<db, fetches, chunks, metadata, storageRoomId, workerVars, sessionVars, timerVars,
                 upl, lst, histVars, sessionLog>>

\* request.onsuccess (lines 48-52): this.db is set to the connection of this
\* request, the caller goes on and creates its transaction (line 140).
OpenSuccess(p) ==
  /\ procs[p].pc = "opening"
  /\ db' = procs[p].conn
  /\ procs' = [procs EXCEPT ![p].pc = "tx", ![p].seq = NextSeq]
  /\ resp' = NoResp
  /\ UNCHANGED <<opens, fetches, chunks, metadata, storageRoomId, workerVars, sessionVars, timerVars,
                 upl, lst, calls, histVars, sessionLog>>

\* request.onerror (lines 43-46): openDB rejects, and so does the call.
OpenError(p) ==
  /\ procs[p].pc = "opening"
  /\ procs' = [procs EXCEPT ![p].pc = "failed"]
  /\ resp' = [op |-> "updateChunkStatus", ok |-> FALSE, error |-> "open",
              chunkId |-> procs[p].chunkId]
  /\ UNCHANGED <<db, opens, fetches, chunks, metadata, storageRoomId, workerVars, sessionVars,
                 timerVars, upl, lst, calls, histVars, sessionLog>>

\* Mutant of TxCanStart: a transaction starts while another one is active.
TxCanStart_NoLock(p) ==
  procs[p].pc = "tx"

\* The 'readwrite' transaction of line 140 starts: transactions on the object
\* store run one at a time, in the order of their creation.
TxCanStart(p) ==
  /\ procs[p].pc = "tx"
  /\ \A q \in InTx \ {p} : procs[q].pc = "tx" /\ procs[q].seq > procs[p].seq

\* store.get(chunkId) and its onsuccess (lines 143-157) up to store.put.
TxGet(p) ==
  /\ TxCanStart(p)
  /\ IF procs[p].chunkId \in DOMAIN chunks
     THEN /\ procs' = [procs EXCEPT ![p].pc = "put",
                                    ![p].chunk = UpdatedChunk(chunks[procs[p].chunkId],
                                                              procs[p].status, procs[p].url)]
          /\ resp' = NoResp
     ELSE /\ procs' = [procs EXCEPT ![p].pc = "failed"]
          /\ resp' = [op |-> "updateChunkStatus", ok |-> FALSE, error |-> "not found",
                      chunkId |-> procs[p].chunkId]
  /\ UNCHANGED <<db, opens, fetches, chunks, metadata, storageRoomId, workerVars, sessionVars,
                 timerVars, upl, lst, calls, histVars, sessionLog>>

\* store.put(chunk) and its onsuccess (lines 151-152): the call resolves.
TxPut(p) ==
  /\ procs[p].pc = "put"
  /\ chunks' = PutChunk(chunks, procs[p].chunk)
  /\ procs' = [procs EXCEPT ![p].pc = "done", ![p].chunk = NULL]
  /\ resp' = [op |-> "updateChunkStatus", ok |-> TRUE, chunkId |-> procs[p].chunkId]
  /\ UNCHANGED <<db, opens, fetches, metadata, storageRoomId, workerVars, sessionVars, timerVars,
                 upl, lst, calls, histVars, sessionLog>>

\* The status a caller writes: 'uploading' (line 364) or 'uploaded' (line 382).
Statuses == {"uploading", "uploaded"}

\* Calls of updateChunkStatus that overlap, from the first use of the database on.
StoreNext ==
  \/ \E p \in Procs, k \in AllChunkIds, st \in Statuses, u \in Urls \cup {NoUrl} :
       UpdateCall(p, k, st, u)
  \/ \E p \in Procs : OpenSuccess(p)
  \/ \E p \in Procs : OpenError(p)
  \/ \E p \in Procs : TxGet(p)
  \/ \E p \in Procs : TxPut(p)

StoreSpec == StoreInit /\ [][StoreNext]_vars

\* Uploads that are under way while the cleanup of the room runs, and
\* confirmations that arrive after it.
\* The session has one chunk; the confirmations name it or another key.
LateNext ==
  \/ \E r \in Rooms, st \in Students : InitRecording(r, st)
  \/ \E b \in Blobs : RegisterChunk(0, b)
  \/ \E k \in AllChunkIds, u \in Urls : MarkChunkUploaded(k, u)
  \/ GetChunkForUpload(0)
  \/ UploadStorage
  \/ UploadChunkFetch
  \/ \E n \in 1..MaxFetches, o \in Outcomes, u \in Urls : UploadChunkDone(n, o, u)
  \/ \E r \in Rooms : ScheduleCleanup(r)
  \/ \E t \in TimerIds : TimerFire(t)
  \/ \E t \in TimerIds : SweepDecide(t)
  \/ \E t \in TimerIds : SweepDelete(t)
  \/ \E t \in TimerIds : SweepFinish(t)
  \/ \E t \in TimerIds : SweepFail(t)

LateSpec == Init /\ [][LateNext]_vars

\* ------------------------------------------------------- end of a session
\* The event log after addEvent(eventType), called with the flag isRecording
\* as it is at the call (lines 269, 279).
Pushed(recording, evs, event) ==
  IF recording THEN Append(evs, event) ELSE evs

\* Mutant of StopRecording: the end of the recording forgets the room.
StopRecording_Clears(now) ==
  /\ calls < MaxCalls
  /\ calls' = calls + 1
  /\ isRecording' = FALSE
  /\ examRoomId' = NULL
  /\ metadata' = IF examRoomId # NULL
                 THEN SaveMetadata(metadata, examRoomId,
                                   [studentId |-> studentId,
                                    examEndTime |-> now,
                                    events |-> events,
                                    totalChunks |-> Len(chunkMetadata),
                                    status |-> "ended"])
                 ELSE metadata
  /\ resp' = [op |-> "stopRecording", ok |-> TRUE, totalChunks |-> Len(chunkMetadata)]
  /\ UNCHANGED <<ioVars, lst, chunks, storageRoomId, workerVars, studentId, chunkMetadata, events,
                 sessionLog, timerVars, upl, histVars>>

\* stopRecording(), at the time now (offset from the start of the exam):
\* line 314 clears the flag, then line 315 calls addEvent.
StopRecording(now) ==
  /\ calls < MaxCalls
  /\ calls' = calls + 1
  /\ isRecording' = FALSE
  /\ events' = Pushed(isRecording', events, [type |-> "exam_end", timestamp |-> now])
  /\ sessionLog' = [sessionLog EXCEPT !.events = IF events' = events THEN @
                                                 ELSE Append(@, events'[Len(events')])]
  /\ metadata' = IF examRoomId # NULL
                 THEN SaveMetadata(metadata, examRoomId,
                                   [studentId |-> studentId,
                                    examEndTime |-> now,
                                    events |-> events',
                                    totalChunks |-> Len(chunkMetadata),
                                    status |-> "ended"])
                 ELSE metadata
  /\ resp' = [op |-> "stopRecording", ok |-> TRUE, totalChunks |-> Len(chunkMetadata)]
  /\ UNCHANGED <<ioVars, lst, chunks, storageRoomId, workerVars, examRoomId, studentId, chunkMetadata,
                 timerVars, upl, histVars>>

\* The recording of sessions: start, events, chunks, end, and restarts of the worker.
RecordNext ==
  \/ \E r \in KeyRooms, st \in Students : InitRecording(r, st)
  \/ \E ty \in EventTypes, t \in Offsets : AddEvent(ty, t)
  \/ \E i \in Indices, b \in Blobs : RegisterChunk(i, b)
  \/ \E t \in Offsets : StopRecording(t)
  \/ Restart

RecordSpec == Init /\ [][RecordNext]_vars

\* One lifetime of the worker from the recording to its end and the cleanup
\* scheduled after it, with the requests for the list and for uploads.
EndNext ==
  \/ \E r \in Rooms, st \in Students : InitRecording(r, st)
  \/ \E i \in Indices, b \in Blobs : RegisterChunk(i, b)
  \/ StopRecording(CHUNK_DURATION_MS)
  \/ \E r \in Rooms : ScheduleCleanup(r)
  \/ \E t \in TimerIds : TimerFire(t)
  \/ \E t \in TimerIds : SweepDecide(t)
  \/ \E t \in TimerIds : SweepDelete(t)
  \/ \E t \in TimerIds : SweepFinish(t)
  \/ \E t \in TimerIds : SweepFail(t)
  \/ \E i \in Indices : GetChunkForUpload(i)
  \/ UploadStorage
  \/ UploadUpdate
  \/ GetChunkList
  \/ ListStorage

EndSpec == Init /\ [][EndNext]_vars

\* Recordings of one room one after the other in one lifetime of the worker;
\* SCHEDULE_CLEANUP is sent when an exam has ended, never during a
\* recording, so that a timer alive during a recording was scheduled before
\* that recording began.
AgainNext ==
  \/ \E r \in Rooms, st \in Students : InitRecording(r, st)
  \/ \E i \in Indices, b \in Blobs : RegisterChunk(i, b)
  \/ StopRecording(CHUNK_DURATION_MS)
  \/ \E r \in Rooms : ~isRecording /\ ScheduleCleanup(r)
  \/ \E t \in TimerIds : TimerFire(t)
  \/ \E t \in TimerIds : SweepDecide(t)
  \/ \E t \in TimerIds : SweepDelete(t)
  \/ \E t \in TimerIds : SweepFinish(t)
  \/ \E t \in TimerIds : SweepFail(t)

AgainSpec == Init /\ [][AgainNext]_vars

\* ------------------------------------------------------- the whitelist
\* Strings are tuples of characters. String.prototype.toLowerCase on the
\* letters of the ASCII alphabet:
LowerOf ==
  "A" :> "a" @@ "B" :> "b" @@ "C" :> "c" @@ "D" :> "d" @@ "E" :> "e" @@ "F" :> "f" @@
  "G" :> "g" @@ "H" :> "h" @@ "I" :> "i" @@ "J" :> "j" @@ "K" :> "k" @@ "L" :> "l" @@
  "M" :> "m" @@ "N" :> "n" @@ "O" :> "o" @@ "P" :> "p" @@ "Q" :> "q" @@ "R" :> "r" @@
  "S" :> "s" @@ "T" :> "t" @@ "U" :> "u" @@ "V" :> "v" @@ "W" :> "w" @@ "X" :> "x" @@
  "Y" :> "y" @@ "Z" :> "z"

toLowerCase(str) ==
  [i \in DOMAIN str |-> IF str[i] \in DOMAIN LowerOf THEN LowerOf[str[i]] ELSE str[i]]

\* str.replace(/^www\./, "")
StripWww(str) ==
  IF Len(str) >= 4 /\ SubSeq(str, 1, 4) = <<"w", "w", "w", ".">>
    THEN SubSeq(str, 5, Len(str))
    ELSE str

\* String.prototype.trim, for the blank: from the first character that is
\* not one to the last.
trim(str) ==
  LET inked == {i \in DOMAIN str : str[i] # " "}
  IN  IF inked = {} THEN <<>>
      ELSE SubSeq(str, CHOOSE i \in inked : \A j \in inked : i <= j,
                       CHOOSE i \in inked : \A j \in inked : j <= i)

\* An element of an array of the server's answer: a string or something else.
Str(chars) == [type |-> "string", chars |-> chars]
NotAString == [type |-> "number", chars |-> <<>>]

\* fetchWhitelist lines 461-474
defaultWhitelist ==
  <<<<"g", "o", "o", "g", "l", "e", ".", "c", "o", "m">>,
    <<"g", "o", "o", "g", "l", "e", ".", "c", "o", ".", "i", "n">>,
    <<"y", "o", "u", "t", "u", "b", "e", ".", "c", "o", "m">>,
    <<"g", "m", "a", "i", "l", ".", "c", "o", "m">>,
    <<"m", "a", "i", "l", ".", "g", "o", "o", "g", "l", "e", ".", "c", "o", "m">>,
    <<"d", "r", "i", "v", "e", ".", "g", "o", "o", "g", "l", "e", ".", "c", "o", "m">>,
    <<"d", "o", "c", "s", ".", "g", "o", "o", "g", "l", "e", ".", "c", "o", "m">>,
    <<"c", "l", "a", "s", "s", "r", "o", "o", "m", ".", "g", "o", "o", "g", "l", "e", ".", "c", "o", "m">>,
    <<"a", "c", "c", "o", "u", "n", "t", "s", ".", "g", "o", "o", "g", "l", "e", ".", "c", "o", "m">>,
    <<"i", "k", ".", "i", "m", "a", "g", "e", "k", "i", "t", ".", "i", "o">>,
    <<"i", "m", "a", "g", "e", "k", "i", "t", ".", "i", "o">>>>

\* normalizeDomain (lines 477-480); null is NULL, which filter(Boolean) drops
\* as it drops the empty string.
normalizeDomain(domain) ==
  IF domain.type # "string" THEN NULL
  ELSE trim(StripWww(toLowerCase(domain.chars)))

\* array.map(normalizeDomain).filter(Boolean)
Normalized(array) ==
  SelectSeq([i \in DOMAIN array |-> normalizeDomain(array[i])], LAMBDA d : d # <<>>)

normalizedDefault == Normalized([i \in DOMAIN defaultWhitelist |-> Str(defaultWhitelist[i])])

\* [...new Set(array)]: the first occurrence of each element, in order
Distinct(array) ==
  LET first == {i \in DOMAIN array : \A j \in 1 .. (i - 1) : array[j] # array[i]}
  IN  [k \in 1 .. Cardinality(first) |->
         array[CHOOSE i \in first : Cardinality({j \in first : j <= i}) = k]]

\* Mutant of MergedWhitelist: the list of the server replaces the defaults.
MergedWhitelist_BackendOnly(result) ==
  LET backendWhitelist == IF result.whitelist.type # "absent" THEN result.whitelist
                          ELSE IF result.data.type # "absent" THEN result.data
                          ELSE [type |-> result.kind, items |-> result.items]
  IN  Distinct(IF backendWhitelist.type = "array"
                 THEN Normalized(backendWhitelist.items) ELSE <<>>)

\* Lines 525-536: backendWhitelist = result.whitelist || result.data || result,
\* normalised if it is an array, after the defaults, without duplicates.
MergedWhitelist(result) ==
  LET backendWhitelist == IF result.whitelist.type # "absent" THEN result.whitelist
                          ELSE IF result.data.type # "absent" THEN result.data
                          ELSE [type |-> result.kind, items |-> result.items]
      normalizedBackend == IF backendWhitelist.type = "array"
                             THEN Normalized(backendWhitelist.items) ELSE <<>>
  IN  Distinct(normalizedDefault \o normalizedBackend)

\* The answers of the whitelist endpoint.
Absent == [type |-> "absent", items |-> <<>>]
Array(items) == [type |-> "array", items |-> items]
Other == [type |-> "object", items |-> <<>>]
BackendArrays ==
  {<<>>,
   <<Str(<<"W", "W", "W", ".", "X", ".", "i", "o">>), NotAString>>,
   <<Str(<<" ", "w", "w", "w", ".", "x", ".", "i", "o", " ">>), Str(<<"w", "w", "w", ".">>),
     Str(<<"g", "o", "o", "g", "l", "e", ".", "c", "o", "m">>)>>}
\* res.json(): an object (success: false or not, with whitelist or data or
\* neither), an array, or null, on which result.success throws, as does a
\* body that is not JSON.
JsonResults ==
  {[kind |-> "object", success |-> FALSE, whitelist |-> Absent, data |-> Absent, items |-> <<>>],
   [kind |-> "object", success |-> TRUE, whitelist |-> Absent, data |-> Absent, items |-> <<>>],
   [kind |-> "object", success |-> TRUE, whitelist |-> Other, data |-> Absent, items |-> <<>>],
   [kind |-> "null", success |-> TRUE, whitelist |-> Absent, data |-> Absent, items |-> <<>>]}
  \cup {[kind |-> "object", success |-> TRUE, whitelist |-> Array(a), data |-> Absent,
         items |-> <<>>] : a \in BackendArrays}
  \cup {[kind |-> "object", success |-> TRUE, whitelist |-> Absent, data |-> Array(a),
         items |-> <<>>] : a \in BackendArrays \ {<<>>}}
  \cup {[kind |-> "array", success |-> TRUE, whitelist |-> Absent, data |-> Absent,
         items |-> a] : a \in BackendArrays \ {<<>>}}
\* MergedWhitelist of each of the answers.
MergedOf == [res \in JsonResults |-> MergedWhitelist(res)]
\* fetch: a response that is ok, one that is not, a network error.
FetchOutcomes == {"ok", "notok", "throws"}

\* --------------------------------------------------- fetchWhitelist, by step
\* What fetchWhitelist answers its caller: it resolved, after the path it took.
WhitelistDone(path) == [op |-> "fetchWhitelist", rejected |-> FALSE, path |-> path]

\* A call of wl takes a step: the calls in its state may have been several,
\* so the state stays or goes.
Left(f) == {wl \ {f}, wl}

\* The call returns (lines 490-495, 501-513, 518-525, 538, 541-547): the list
\* is handed to chrome.storage.local.set, and the caller goes on: START_EXAM
\* and REFRESH_WHITELIST answer, EXAM_STARTED reads the flag (line 144).
WhitelistReturns(f, list, path) ==
  /\ local' = [local EXCEPT !.whitelist = list]
  /\ resp' = WhitelistDone(path)
  /\ IF f.from = "EXAM_STARTED"
       THEN /\ wl' = wl \ {f}
            /\ es' = [es EXCEPT !.pc = "final", !.examActive = local.examActive]
       ELSE /\ wl' \in Left(f)
            /\ es' = es

\* Lines 484-496: without a room id, the one of the storage; without any,
\* the defaults.
WhitelistStorage(f) ==
  /\ f \in wl
  /\ f.pc = "storage"
  /\ IF f.roomId = NULL
       THEN WhitelistReturns(f, normalizedDefault, "noRoom")
       ELSE /\ wl' \in {w \cup {[f EXCEPT !.pc = "fetch"]} : w \in Left(f)}
            /\ resp' = NoResp
            /\ UNCHANGED <<local, es>>
  /\ UNCHANGED <<chunks, metadata, storageRoomId, sessionVars, timerVars, upl, lst, calls,
                 histVars, sessionLog, ioVars, flags, posted, phase, envVars, recorder>>

\* Lines 498-513 and the catch of 540-547: the answer of fetch.
WhitelistFetch(f, outcome) ==
  /\ f \in wl
  /\ f.pc = "fetch"
  /\ CASE outcome = "ok" ->
            /\ wl' \in {w \cup {[f EXCEPT !.pc = "json"]} : w \in Left(f)}
            /\ resp' = NoResp
            /\ UNCHANGED <<local, es>>
       [] outcome = "notok" -> WhitelistReturns(f, normalizedDefault, "notOk")
       [] outcome = "throws" -> WhitelistReturns(f, normalizedDefault, "exception")
  /\ UNCHANGED <<chunks, metadata, storageRoomId, sessionVars, timerVars, upl, lst, calls,
                 histVars, sessionLog, ioVars, flags, posted, phase, envVars, recorder>>

\* Lines 515-538 and the catch: the body of the answer.
WhitelistJson(f, result) ==
  /\ f \in wl
  /\ f.pc = "json"
  /\ CASE result.kind = "null" -> WhitelistReturns(f, normalizedDefault, "exception")
       [] result.kind # "null" /\ result.success = FALSE ->
            WhitelistReturns(f, normalizedDefault, "apiError")
       [] OTHER -> WhitelistReturns(f, MergedOf[result], "success")
  /\ UNCHANGED <<chunks, metadata, storageRoomId, sessionVars, timerVars, upl, lst, calls,
                 histVars, sessionLog, ioVars, flags, posted, phase, envVars, recorder>>

\* ------------------------------------------------- the exam's messages
\* REFRESH_WHITELIST (worker lines 190-215): the room id of the storage is
\* read, then fetchWhitelist is called with the room of the message or that one.
RefreshWhitelist(msgRoom) ==
  /\ calls < MaxCalls
  /\ calls' = calls + 1
  /\ wl' = wl \cup {[pc |-> "refresh", roomId |-> IF msgRoom # NULL THEN msgRoom
                                                  ELSE storageRoomId,
                     from |-> "REFRESH_WHITELIST"]}
  /\ resp' = NoResp
  /\ UNCHANGED <<chunks, metadata, storageRoomId, sessionVars, timerVars, upl, lst,
                 histVars, sessionLog, ioVars, local, es, flags, posted, phase, envVars,
                 recorder>>

RefreshStorage(f) ==
  /\ f \in wl
  /\ f.pc = "refresh"
  /\ IF f.roomId # NULL
       THEN /\ wl' \in {w \cup {[f EXCEPT !.pc = "fetch"]} : w \in Left(f)}
            /\ resp' = NoResp
       ELSE /\ wl' \in Left(f)
            /\ resp' = [op |-> "REFRESH_WHITELIST", success |-> FALSE]
  /\ UNCHANGED <<chunks, metadata, storageRoomId, sessionVars, timerVars, upl, lst, calls,
                 histVars, sessionLog, ioVars, local, es, flags, posted, phase, envVars,
                 recorder>>

\* EXAM_STARTED (worker lines 94-160), one at a time: the storage is read.
ExamStarted(msgRoom) ==
  /\ calls < MaxCalls
  /\ es.pc = "idle"
  /\ calls' = calls + 1
  /\ es' = [pc |-> "state", msgRoom |-> msgRoom, examActive |-> local.examActive,
            roomId |-> storageRoomId]
  /\ resp' = NoResp
  /\ UNCHANGED <<chunks, metadata, storageRoomId, sessionVars, timerVars, upl, lst,
                 histVars, sessionLog, ioVars, local, wl, flags, posted, phase, envVars,
                 recorder>>

\* Lines 103-117: no room id, no monitoring; else examActive: true is
\* written, with the room id of the message if it has one.
ExamStartedSet ==
  /\ es.pc = "state"
  /\ IF es.msgRoom = NULL /\ es.roomId = NULL
       THEN /\ es' = IdleExamStarted
            /\ resp' = [op |-> "EXAM_STARTED", success |-> FALSE, examActive |-> NoFlag,
                        verified |-> FALSE]
            /\ UNCHANGED <<local, storageRoomId, phase>>
       ELSE /\ local' = [local EXCEPT !.examActive = "true"]
            /\ storageRoomId' = IF es.msgRoom # NULL THEN es.msgRoom ELSE storageRoomId
            /\ phase' = "starting"
            /\ es' = [es EXCEPT !.pc = "set"]
            /\ resp' = NoResp
  /\ UNCHANGED <<chunks, metadata, sessionVars, timerVars, upl, lst, calls,
                 histVars, sessionLog, ioVars, wl, flags, posted, envVars, recorder>>

\* Lines 120 and 127: the write is done, the flag and the room id are read back.
ExamStartedRead ==
  /\ es.pc \in {"set", "retry"}
  /\ es' = [es EXCEPT !.pc = IF es.pc = "set" THEN "verify" ELSE "verified",
                      !.examActive = local.examActive, !.roomId = storageRoomId]
  /\ resp' = NoResp
  /\ UNCHANGED <<chunks, metadata, storageRoomId, sessionVars, timerVars, upl, lst, calls,
                 histVars, sessionLog, ioVars, local, wl, flags, posted, phase, envVars,
                 recorder>>

\* Lines 124-144: a flag read back other than true is written once more;
\* then fetchWhitelist for the room id read back, or without one the last read.
ExamStartedVerify ==
  /\ es.pc \in {"verify", "verified"}
  /\ IF es.pc = "verify" /\ es.examActive # "true"
       THEN /\ local' = [local EXCEPT !.examActive = "true"]
            /\ phase' = "starting"
            /\ es' = [es EXCEPT !.pc = "retry"]
            /\ wl' = wl
       ELSE IF es.roomId # NULL
       THEN /\ wl' = wl \cup {[pc |-> "fetch", roomId |-> es.roomId, from |-> "EXAM_STARTED"]}
            /\ es' = [es EXCEPT !.pc = "whitelist"]
            /\ UNCHANGED <<local, phase>>
       ELSE /\ es' = [es EXCEPT !.pc = "final", !.examActive = local.examActive]
            /\ UNCHANGED <<local, phase, wl>>
  /\ resp' = NoResp
  /\ UNCHANGED <<chunks, metadata, storageRoomId, sessionVars, timerVars, upl, lst, calls,
                 histVars, sessionLog, ioVars, flags, posted, envVars, recorder>>

\* Lines 147-152: the answer, with the flag as last read.
ExamStartedRespond ==
  /\ es.pc = "final"
  /\ es' = IdleExamStarted
  /\ resp' = [op |-> "EXAM_STARTED", success |-> TRUE, examActive |-> es.examActive,
              verified |-> es.examActive = "true"]
  /\ phase' = IF phase = "starting" THEN "started" ELSE phase
  /\ UNCHANGED <<chunks, metadata, storageRoomId, sessionVars, timerVars, upl, lst, calls,
                 histVars, sessionLog, ioVars, local, wl, flags, posted, envVars, recorder>>

\* END_EXAM (worker lines 162-175)
EndExam ==
  /\ calls < MaxCalls
  /\ calls' = calls + 1
  /\ local' = [local EXCEPT !.examActive = "false"]
  /\ phase' = "ended"
  /\ resp' = [op |-> "END_EXAM", success |-> TRUE]
  /\ UNCHANGED <<chunks, metadata, storageRoomId, sessionVars, timerVars, upl, lst,
                 histVars, sessionLog, ioVars, es, wl, flags, posted, envVars, recorder>>

\* STOP_MONITORING (worker lines 177-188)
StopMonitoring ==
  /\ calls < MaxCalls
  /\ calls' = calls + 1
  /\ local' = [local EXCEPT !.examActive = NoFlag, !.studentId = NULL]
  /\ storageRoomId' = NULL
  /\ phase' = "stopped"
  /\ resp' = [op |-> "STOP_MONITORING", success |-> TRUE]
  /\ UNCHANGED <<chunks, metadata, sessionVars, timerVars, upl, lst,
                 histVars, sessionLog, ioVars, es, wl, flags, posted, envVars, recorder>>

\* The messages of an exam, as the page and its content script send them:
\* START_EXAM on every load of the page (content.js 232-243), EXAM_STARTED,
\* REFRESH_WHITELIST, END_EXAM, STOP_MONITORING, and a message of the
\* recording. The server has no list of its own here.
ExamNext ==
  \/ \E r \in Rooms : Cardinality(wl) < MaxLists /\ StartExam(r)
  \/ \E r \in Rooms \cup {NULL} : ExamStarted(r)
  \/ ExamStartedSet
  \/ ExamStartedRead
  \/ ExamStartedVerify
  \/ ExamStartedRespond
  \/ \E f \in wl : WhitelistFetch(f, "notok")
  \/ Cardinality(wl) < MaxLists /\ RefreshWhitelist(NULL)
  \/ \E f \in wl : RefreshStorage(f)
  \/ EndExam
  \/ StopMonitoring
  \/ \E r \in Rooms, st \in Students : InitRecording(r, st)

ExamSpec == Init /\ [][ExamNext]_vars

\* The calls of fetchWhitelist, with every answer of the server.
WhitelistNext ==
  \/ \E r \in Rooms \cup {NULL} : Cardinality(wl) < MaxLists /\ StartExam(r)
  \/ \E r \in Rooms \cup {NULL} : Cardinality(wl) < MaxLists /\ RefreshWhitelist(r)
  \/ \E f \in wl : RefreshStorage(f)
  \/ \E f \in wl : WhitelistStorage(f)
  \/ \E f \in wl, o \in FetchOutcomes : WhitelistFetch(f, o)
  \/ \E f \in wl, res \in JsonResults : WhitelistJson(f, res)

WhitelistSpec == Init /\ [][WhitelistNext]_vars

\* ------------------------------------------------ the violation reports
\* str.endsWith(`.${suffix}`)
EndsWithDot(str, suffix) ==
  /\ Len(str) >= Len(suffix) + 1
  /\ SubSeq(str, Len(str) - Len(suffix), Len(str)) = <<".">> \o suffix

\* tabs.onUpdated lines 612-621
searchDomains ==
  {<<"g", "o", "o", "g", "l", "e", ".", "c", "o", "m">>,
   <<"g", "o", "o", "g", "l", "e", ".", "c", "o", ".", "i", "n">>,
   <<"b", "i", "n", "g", ".", "c", "o", "m">>,
   <<"y", "a", "h", "o", "o", ".", "c", "o", "m">>,
   <<"s", "e", "a", "r", "c", "h", ".", "y", "a", "h", "o", "o", ".", "c", "o", "m">>,
   <<"d", "u", "c", "k", "d", "u", "c", "k", "g", "o", ".", "c", "o", "m">>,
   <<"y", "a", "n", "d", "e", "x", ".", "c", "o", "m">>,
   <<"b", "a", "i", "d", "u", ".", "c", "o", "m">>}

\* The URL of a tab (new URL(changeInfo.url)): whether its protocol is one of
\* the browser's own, its hostname, and its parameters: none, one of the
\* search parameters (q, query, ...), others only. Its path begins with "/".
TabUrls ==
  {[internal |-> FALSE, hostname |-> <<"e", "v", "i", "l", ".", "i", "o">>, query |-> "none"],
   [internal |-> FALSE, hostname |-> <<"w", "w", "w", ".", "m", "a", "i", "l", ".", "g", "o", "o", "g", "l", "e", ".", "c", "o", "m">>, query |-> "none"],
   [internal |-> FALSE, hostname |-> <<"w", "w", "w", ".", "b", "i", "n", "g", ".", "c", "o", "m">>, query |-> "search"]}

\* Lines 609-642: a search engine's page with a search parameter, or with a
\* search path (every path begins with "/", line 637) and some parameter.
isSearchQuery(url) ==
  LET domain == toLowerCase(url.hostname)
      isSearchEngine == \E searchDomain \in searchDomains :
                          domain = searchDomain \/ EndsWithDot(domain, searchDomain)
  IN  isSearchEngine /\ (url.query = "search" \/ url.query # "none")

\* Lines 651-673: the hostname, or a domain above or below it, is in the list.
isWhitelisted(url, whitelist) ==
  LET domainWithoutWww == StripWww(toLowerCase(url.hostname))
  IN  \E i \in DOMAIN whitelist :
        LET allowedDomainLower == trim(StripWww(toLowerCase(whitelist[i])))
        IN  /\ whitelist[i] # <<>>
            /\ \/ domainWithoutWww = allowedDomainLower
               \/ EndsWithDot(domainWithoutWww, allowedDomainLower)
               \/ EndsWithDot(allowedDomainLower, domainWithoutWww)

\* Lines 557-681 on the values read at line 557: whether the navigation is
\* to be flagged.
ToFlag(url) ==
  /\ local.whitelist # NULL
  /\ local.studentId # NULL
  /\ storageRoomId # NULL
  /\ local.examActive = "true"
  /\ ~url.internal
  /\ ~isSearchQuery(url)
  /\ ~isWhitelisted(url, local.whitelist)

FreeFlag == CHOOSE i \in FlagIds : flags[i].pc = "idle" /\ \A j \in FlagIds : flags[j].pc = "idle" => i <= j

\* chrome.tabs.onUpdated with a new URL (lines 553-563): the storage is read.
TabUpdated(url) ==
  /\ calls < MaxCalls
  /\ \E i \in FlagIds : flags[i].pc = "idle"
  /\ calls' = calls + 1
  /\ flags' = [flags EXCEPT ![FreeFlag] = [IdleFlag EXCEPT !.pc = "check", !.kind = "navigate",
                                                          !.go = ToFlag(url)]]
  /\ resp' = NoResp
  /\ UNCHANGED <<chunks, metadata, storageRoomId, sessionVars, timerVars, upl, lst,
                 histVars, sessionLog, ioVars, local, es, wl, posted, phase, envVars,
                 recorder>>

\* Lines 565-686: nothing to flag, or the wait of 2000 ms begins.
FlagCheck(i) ==
  /\ flags[i].pc = "check"
  /\ flags' = [flags EXCEPT ![i] = IF flags[i].go THEN [@ EXCEPT !.pc = "delay"] ELSE IdleFlag]
  /\ resp' = NoResp
  /\ UNCHANGED <<chunks, metadata, storageRoomId, sessionVars, timerVars, upl, lst, calls,
                 histVars, sessionLog, ioVars, local, es, wl, posted, phase, envVars,
                 recorder>>

\* The waits of the screenshot: the 2000 ms (line 680), chrome.tabs.get
\* (handleFlaggedSite, line 700: without the tab, no report), the 1000 ms
\* (line 713), captureVisibleTab (line 718: with or without a picture);
\* then student and room are read (line 741).
FlagWait(i, ok) ==
  /\ flags[i].pc \in {"delay", "tab", "wait", "shot"}
  /\ flags' = [flags EXCEPT ![i] =
                 CASE flags[i].pc = "delay" -> [@ EXCEPT !.pc = "tab"]
                   [] flags[i].pc = "tab" -> IF ok THEN [@ EXCEPT !.pc = "wait"] ELSE IdleFlag
                   [] flags[i].pc = "wait" -> [@ EXCEPT !.pc = "shot"]
                   [] flags[i].pc = "shot" -> [@ EXCEPT !.pc = "student",
                                                        !.studentId = local.studentId,
                                                        !.roomId = storageRoomId]]
  /\ resp' = NoResp
  /\ UNCHANGED <<chunks, metadata, storageRoomId, sessionVars, timerVars, upl, lst, calls,
                 histVars, sessionLog, ioVars, local, es, wl, posted, phase, envVars,
                 recorder>>

\* Lines 747-754 and 231-234: without student or room no report; else the
\* flag is read.
FlagStudent(i) ==
  /\ flags[i].pc \in {"student", "name"}
  /\ flags' = [flags EXCEPT ![i] =
                 IF flags[i].studentId = NULL \/ flags[i].roomId = NULL THEN IdleFlag
                 ELSE [@ EXCEPT !.pc = "active", !.examActive = local.examActive]]
  /\ resp' = NoResp
  /\ UNCHANGED <<chunks, metadata, storageRoomId, sessionVars, timerVars, upl, lst, calls,
                 histVars, sessionLog, ioVars, local, es, wl, posted, phase, envVars,
                 recorder>>

\* Lines 755-786 and 235-263: a flag read that is not true ends the report;
\* with true the payload is built and POSTed to /api/proctoring/flag.
FlagActive(i) ==
  /\ flags[i].pc = "active"
  /\ IF flags[i].examActive # "true"
       THEN /\ flags' = [flags EXCEPT ![i] = IdleFlag]
            /\ posted' = posted
            /\ resp' = IF flags[i].kind = "paste"
                         THEN [op |-> "PASTE_VIOLATION", success |-> TRUE, sent |-> FALSE]
                         ELSE NoResp
       ELSE /\ flags' = [flags EXCEPT ![i].pc = "post"]
            /\ posted' = Append(posted, [kind |-> flags[i].kind,
                                         examActive |-> flags[i].examActive,
                                         stored |-> local.examActive])
            /\ resp' = NoResp
  /\ UNCHANGED <<chunks, metadata, storageRoomId, sessionVars, timerVars, upl, lst, calls,
                 histVars, sessionLog, ioVars, local, es, wl, phase, envVars, recorder>>

\* Lines 788-800 and 265-279: the answer of the server, or none.
FlagPosted(i, ok) ==
  /\ flags[i].pc = "post"
  /\ flags' = [flags EXCEPT ![i] = IdleFlag]
  /\ resp' = IF flags[i].kind = "paste"
               THEN [op |-> "PASTE_VIOLATION", success |-> ok, sent |-> TRUE]
               ELSE NoResp
  /\ UNCHANGED <<chunks, metadata, storageRoomId, sessionVars, timerVars, upl, lst, calls,
                 histVars, sessionLog, ioVars, local, es, wl, posted, phase, envVars,
                 recorder>>

\* PASTE_VIOLATION (worker lines 217-283) with the ids of the message: without
\* one of them it is refused, else the student's name is read.
PasteViolation(st, roomId) ==
  /\ calls < MaxCalls
  /\ \E i \in FlagIds : flags[i].pc = "idle"
  /\ calls' = calls + 1
  /\ IF st = NULL \/ roomId = NULL
       THEN /\ flags' = flags
            /\ resp' = [op |-> "PASTE_VIOLATION", success |-> FALSE, sent |-> FALSE]
       ELSE /\ flags' = [flags EXCEPT ![FreeFlag] = [IdleFlag EXCEPT !.pc = "name",
                                 !.kind = "paste", !.studentId = st, !.roomId = roomId]]
            /\ resp' = NoResp
  /\ UNCHANGED <<chunks, metadata, storageRoomId, sessionVars, timerVars, upl, lst,
                 histVars, sessionLog, ioVars, local, es, wl, posted, phase, envVars,
                 recorder>>

\* An exam with navigations and pastes of the student; the whitelist is the
\* default one.
FlagNext ==
  \/ \E r \in Rooms : Cardinality(wl) < MaxLists /\ StartExam(r)
  \/ ExamStarted(NULL)
  \/ ExamStartedSet
  \/ ExamStartedRead
  \/ ExamStartedVerify
  \/ ExamStartedRespond
  \/ \E f \in wl : WhitelistFetch(f, "notok")
  \/ EndExam
  \/ \E url \in TabUrls : TabUpdated(url)
  \/ \E i \in FlagIds : FlagCheck(i)
  \/ \E i \in FlagIds, ok \in BOOLEAN : FlagWait(i, ok)
  \/ \E i \in FlagIds : FlagStudent(i)
  \/ \E i \in FlagIds : FlagActive(i)
  \/ \E i \in FlagIds, ok \in BOOLEAN : FlagPosted(i, ok)
  \/ \E st \in Students \cup {NULL}, r \in Rooms : PasteViolation(st, r)

FlagSpec == Init /\ [][FlagNext]_vars

\* ------------------------------------------------ the environment (config.js)
\* String.prototype.includes
includes(str, sub) ==
  \E i \in 1 .. (Len(str) - Len(sub) + 1) : SubSeq(str, i, i + Len(sub) - 1) = sub

localhost == <<"l", "o", "c", "a", "l", "h", "o", "s", "t">>
loopback == <<"1", "2", "7", ".", "0", ".", "0", ".", "1">>

\* sender.tab.url or sender.url of a message: the page of the development
\* client (DEV_CONFIG.CLIENT_URL, by name and by address), that of the
\* deployed one (PROD_CONFIG.CLIENT_URL); NULL: the sender has none.
SenderUrls ==
  {<<"h", "t", "t", "p", ":", "/", "/", "l", "o", "c", "a", "l", "h", "o", "s",
   "t", ":", "5", "1", "7", "3", "/", "e", "x", "a", "m">>,
   <<"h", "t", "t", "p", ":", "/", "/", "1", "2", "7", ".", "0", ".", "0", ".",
   "1", ":", "5", "1", "7", "3", "/">>,
   <<"h", "t", "t", "p", "s", ":", "/", "/", "c", "o", "d", "e", "-", "g", "u",
   "a", "r", "d", "-", "s", "i", "x", ".", "v", "e", "r", "c", "e", "l", ".",
   "a", "p", "p", "/">>}

\* isDevEnvironment (config.js lines 37-41)
isDevEnvironment(url) ==
  IF url = NULL THEN FALSE
  ELSE LET lowerUrl == toLowerCase(url)
       IN  includes(lowerUrl, localhost) \/ includes(lowerUrl, loopback)

\* The listener's first lines (worker lines 51-61), which run for a message
\* of any type before the type is looked at: updateEnvironmentFromUrl
\* (config.js 76-84) and saveToStorage (124-134) for the sender's URL.
OnMessage(url) ==
  /\ calls < MaxCalls
  /\ calls' = calls + 1
  /\ IF url = NULL
       THEN UNCHANGED <<cachedApiBaseUrl, local, envLog>>
       ELSE /\ cachedApiBaseUrl' = IF isDevEnvironment(url) THEN DevApi ELSE ProdApi
            /\ local' = [local EXCEPT !.apiBaseUrl = cachedApiBaseUrl']
            /\ envLog' = url
  /\ resp' = NoResp
  /\ UNCHANGED <<chunks, metadata, storageRoomId, sessionVars, timerVars, upl, lst,
                 histVars, sessionLog, ioVars, es, wl, flags, posted, phase,
                 initFromStorage, recorder>>

\* initializeFromStorage (config.js 108-119), when the read it issued at the
\* start of the worker (worker line 24) returns: a stored apiBaseUrl is
\* assigned to the cache.
InitializeFromStorage ==
  /\ initFromStorage.pc = "get"
  /\ initFromStorage' = [initFromStorage EXCEPT !.pc = "done"]
  /\ cachedApiBaseUrl' = IF initFromStorage.apiBaseUrl # NoApi
                           THEN initFromStorage.apiBaseUrl
                           ELSE cachedApiBaseUrl
  /\ resp' = NoResp
  /\ UNCHANGED <<chunks, metadata, storageRoomId, sessionVars, timerVars, upl, lst, calls,
                 histVars, sessionLog, ioVars, examVars, envLog, recorder>>

\* Messages from pages of either environment, over starts of the worker.
EnvNext ==
  \/ \E url \in SenderUrls \cup {NULL} : OnMessage(url)
  \/ InitializeFromStorage
  \/ Restart

EnvSpec == Init /\ [][EnvNext]_vars

\* ------------------------------------------------ ScreenRecorder (page)
\* examInfo of the exams a page may start a recording for.
ExamInfos == {"exam1", "exam2"}

AlreadyRecording == [op |-> "startRecording", success |-> FALSE, error |-> "Already recording",
                     startTime |-> 0]

FreeStart ==
  CHOOSE i \in StartIds : /\ recorder.starts[i].pc = "idle"
                          /\ \A j \in StartIds : recorder.starts[j].pc = "idle" => i <= j

\* startRecording(examInfo, tabId) up to chooseDesktopMedia (screenRecorder.js
\* lines 33-60): refused while this.isRecording; else the fields of the
\* recording are set anew and the user is asked for the screen. Date.now()
\* is the clock of the model, one tick later at each call.
ScreenStartRecording(examInfo) ==
  /\ calls < MaxCalls
  /\ \E i \in StartIds : recorder.starts[i].pc = "idle"
  /\ calls' = calls + 1
  /\ IF recorder.isRecording
       THEN /\ resp' = AlreadyRecording
            /\ recorder' = [recorder EXCEPT !.now = @ + 1]
       ELSE /\ resp' = NoResp
            /\ recorder' = [recorder EXCEPT !.examInfo = examInfo,
                                            !.startTime = recorder.now,
                                            !.chunkCount = 0,
                                            !.recordedBlobs = <<>>,
                                            !.now = @ + 1,
                                            !.starts[FreeStart] = [pc |-> "choose",
                                                                   examInfo |-> examInfo]]
  /\ UNCHANGED <<chunks, metadata, storageRoomId, sessionVars, timerVars, upl, lst,
                 histVars, sessionLog, ioVars, examVars, envVars>>

\* Lines 50-72 and 88-92: the user's choice. With a stream, isRecording is
\* set and the state is saved; without, the catch clears isRecording.
ScreenChosen(i, streamId) ==
  /\ recorder.starts[i].pc = "choose"
  /\ IF streamId
       THEN /\ recorder' = [recorder EXCEPT !.isRecording = TRUE, !.starts[i].pc = "save"]
            /\ resp' = NoResp
       ELSE /\ recorder' = [recorder EXCEPT !.isRecording = FALSE, !.starts[i] = IdleStart]
            /\ resp' = [op |-> "startRecording", success |-> FALSE,
                        error |-> "User cancelled desktop capture", startTime |-> 0]
  /\ UNCHANGED <<chunks, metadata, storageRoomId, sessionVars, timerVars, upl, lst, calls,
                 histVars, sessionLog, ioVars, examVars, envVars>>

\* Lines 74-86: the state is saved, the call answers with this.startTime.
ScreenStarted(i) ==
  /\ recorder.starts[i].pc = "save"
  /\ recorder' = [recorder EXCEPT !.starts[i] = IdleStart]
  /\ resp' = [op |-> "startRecording", success |-> TRUE, error |-> "",
              startTime |-> recorder.startTime]
  /\ UNCHANGED <<chunks, metadata, storageRoomId, sessionVars, timerVars, upl, lst, calls,
                 histVars, sessionLog, ioVars, examVars, envVars>>

\* processVideoChunk(blob) (lines 99-106)
ScreenProcessVideoChunk(blob) ==
  /\ calls < MaxCalls
  /\ calls' = calls + 1
  /\ recorder' = IF recorder.isRecording
                   THEN [recorder EXCEPT !.recordedBlobs = Append(@, blob),
                                         !.chunkCount = @ + 1]
                   ELSE recorder
  /\ resp' = NoResp
  /\ UNCHANGED <<chunks, metadata, storageRoomId, sessionVars, timerVars, upl, lst,
                 histVars, sessionLog, ioVars, examVars, envVars>>

\* stopRecording (lines 111-132), one at a time: refused without a
\* recording, else isRecording is cleared and the state saved.
ScreenStopRecording ==
  /\ calls < MaxCalls
  /\ ~recorder.stopping
  /\ calls' = calls + 1
  /\ IF ~recorder.isRecording
       THEN /\ resp' = [op |-> "stopRecording(screen)", success |-> FALSE]
            /\ recorder' = recorder
       ELSE /\ resp' = NoResp
            /\ recorder' = [recorder EXCEPT !.isRecording = FALSE, !.stopping = TRUE]
  /\ UNCHANGED <<chunks, metadata, storageRoomId, sessionVars, timerVars, upl, lst,
                 histVars, sessionLog, ioVars, examVars, envVars>>

\* Lines 134-149 and saveRecording (159-198): the blobs recorded are saved
\* to a file and cleared, or kept if the file could not be written.
ScreenStopped(saved) ==
  /\ recorder.stopping
  /\ recorder' = [recorder EXCEPT !.stopping = FALSE,
                                  !.recordedBlobs = IF saved THEN <<>> ELSE @]
  /\ resp' = [op |-> "stopRecording(screen)", success |-> TRUE]
  /\ UNCHANGED <<chunks, metadata, storageRoomId, sessionVars, timerVars, upl, lst, calls,
                 histVars, sessionLog, ioVars, examVars, envVars>>

RecorderNext ==
  \/ \E e \in ExamInfos : ScreenStartRecording(e)
  \/ \E i \in StartIds, streamId \in BOOLEAN : ScreenChosen(i, streamId)
  \/ \E i \in StartIds : ScreenStarted(i)
  \/ \E b \in Blobs : ScreenProcessVideoChunk(b)
  \/ ScreenStopRecording
  \/ \E saved \in BOOLEAN : ScreenStopped(saved)

RecorderSpec == Init /\ [][RecorderNext]_vars



\* ============================================================ properties
\* A chunk record disappears from the store only in the delete transaction of
\* a sweep: no other action removes a key.
Deleted == DOMAIN chunks \ DOMAIN chunks'

\* The sweep of timer t returns in this step, not through its catch.
Completes(t) ==
  /\ timers[t].pc \in Running
  /\ timers'[t].pc = "ended"
  /\ timers'[t].mode # "failed"

\* The entries of a chunk list with status 'uploaded'.
UploadedOf(list) == SelectSeq(list, LAMBDA c : c.status = "uploaded")

\* C1: under any interleaving of a sweep with confirmUploaded, chunkForUpload
\* and registerChunk, the sweep never deletes a record whose stored status is
\* 'uploaded' at the moment it is deleted.
C1_SweepNeverDeletesUploaded ==
  [][\A k \in Deleted : chunks[k].status # "uploaded"]_vars

\* C2 as stated: a sweep that is neither cancelled nor rescheduled and that
\* read at least one 'uploaded' chunk when its timer fired leaves, when it
\* completes, exactly the chunks that were 'uploaded' at that read, unchanged.
C2_PartialSweepExact ==
  [][\A t \in TimerIds :
       (/\ Completes(t)
        /\ cleanupTimers[timers[t].room] = t
        /\ HasUploaded(timers[t].list))
       => GetChunksByRoom(chunks', timers[t].room) = UploadedOf(timers[t].list)]_vars

\* C2 amended: the same, for a sweep during which no other operation (a
\* registration, a status update, another sweep's delete) wrote a chunk of the
\* room between the timer's read and the sweep's return.
C2_PartialSweepExactUndisturbed ==
  [][\A t \in TimerIds :
       (/\ Completes(t)
        /\ t \notin interfered
        /\ HasUploaded(timers[t].list))
       => GetChunksByRoom(chunks', timers[t].room) = UploadedOf(timers[t].list)]_vars

\* C2 witness: an undisturbed sweep has deleted the chunks that were not
\* 'uploaded' and kept an 'uploaded' one, and is about to return.
C2_Witness ==
  \E t \in TimerIds :
    /\ timers[t].pc = "finish"
    /\ timers[t].mode = "partial"
    /\ t \notin interfered
    /\ Len(UploadedOf(timers[t].list)) < Len(timers[t].list)
    /\ GetChunksByRoom(chunks, timers[t].room) = UploadedOf(timers[t].list)

\* C3 as stated: a sweep that is neither cancelled nor rescheduled and that
\* read no 'uploaded' chunk when its timer fired leaves, when it completes, no
\* chunk of the room in the store.
C3_FullSweepEmpties ==
  [][\A t \in TimerIds :
       (/\ Completes(t)
        /\ cleanupTimers[timers[t].room] = t
        /\ ~HasUploaded(timers[t].list))
       => GetChunksByRoom(chunks', timers[t].room) = <<>>]_vars

\* C3 amended: the same, for a sweep during which no other operation wrote a
\* chunk of the room between the timer's read and the sweep's return.
C3_FullSweepEmptiesUndisturbed ==
  [][\A t \in TimerIds :
       (/\ Completes(t)
        /\ t \notin interfered
        /\ ~HasUploaded(timers[t].list))
       => GetChunksByRoom(chunks', timers[t].room) = <<>>]_vars

\* C3 witness: an undisturbed sweep that read 'stored' and 'uploading' chunks
\* and no 'uploaded' one has emptied the room and is about to return.
C3_Witness ==
  \E t \in TimerIds :
    /\ timers[t].pc = "finish"
    /\ timers[t].mode = "all"
    /\ t \notin interfered
    /\ \E n \in 1..Len(timers[t].list) : timers[t].list[n].status = "stored"
    /\ \E n \in 1..Len(timers[t].list) : timers[t].list[n].status = "uploading"
    /\ GetChunksByRoom(chunks, timers[t].room) = <<>>

\* C4: after cancelCleanup(s) was called while the cleanup of s was scheduled
\* and had not fired, and until scheduleCleanup(s) is called again, no sweep
\* deletes a chunk of s.
C4_CancelBeforeFireDeletesNothing ==
  [][\A k \in Deleted : chunks[k].roomId \notin cancelledEarly]_vars

\* C5: once cancelCleanup(s) has returned true, the cleanup action whose handle
\* it cancelled does not fire afterwards and deletes no chunk afterwards.
C5_CancelIsExact ==
  [][\A t \in cancelledTrue :
       /\ ~(timers[t].pc = "pending" /\ timers'[t].pc = "decide")
       /\ ~(timers[t].pc = "delete" /\ timers'[t].pc = "finish" /\ Deleted # {})]_vars

\* C6: at most one live (scheduled, not yet fired) cleanup timer per session.
C6_OneLiveTimerPerSession ==
  \A r \in Rooms :
    Cardinality({t \in TimerIds : timers[t].room = r /\ timers[t].pc = "pending"}) <= 1

\* C7: after a sweep has run to its end, whatever the outcome (no chunks, all
\* deleted, the non-uploaded deleted, storage error), its timer handle is no
\* longer in the timer map.
C7_HandleClearedAfterSweep ==
  \A t \in TimerIds :
    timers[t].pc = "ended" => cleanupTimers[timers[t].room] # t

\* C8: cancelCleanup(s) returns true exactly when a cleanup of s is scheduled
\* and has not fired; otherwise it returns false and changes no timer or
\* chunk state.
C8_CancelReturnsTrueIffPending ==
  [][resp'.op = "cancelCleanup" =>
       /\ resp'.value = CleanupPending(resp'.roomId)
       /\ ~CleanupPending(resp'.roomId) =>
            UNCHANGED <<ioVars, timers, cleanupTimers, chunks>>]_vars


\* Position of a status in Stored -> Uploading -> Uploaded.
Rank(status) ==
  CASE status = "stored" -> 0 [] status = "uploading" -> 1 [] status = "uploaded" -> 2

\* The step lowers the status of record k, which exists before and after it.
Lowered(k) ==
  /\ k \in DOMAIN chunks \cap DOMAIN chunks'
  /\ Rank(chunks'[k].status) < Rank(chunks[k].status)

\* C9 as stated: the status of a stored record only moves forward in
\* Stored -> Uploading -> Uploaded while the record exists.
C9_StatusOnlyMovesForward ==
  [][\A k \in DOMAIN chunks : ~Lowered(k)]_vars

\* C9 amended: the status of a stored record moves backwards in two ways only:
\* getChunkForUpload sets it to 'uploading' (also from 'uploaded'), and
\* registering the index again replaces the record by a 'stored' one.
\* markChunkUploaded never lowers a status.
C9_StatusLoweredOnlyByUploadOrRegister ==
  [][\A k \in DOMAIN chunks :
       Lowered(k) =>
         \/ /\ upl.pc = "update" /\ upl'.pc = "idle"
            /\ k = upl.chunk.chunkId
            /\ chunks'[k].status = "uploading"
         \/ /\ chunkMetadata' = Append(chunkMetadata, k)
            /\ \E i \in Indices : k = ChunkId(examRoomId, studentId, i)
            /\ chunks'[k].status = "stored"]_vars

\* C9 witness: a record that was 'uploaded' (it carries its uploadedUrl) has
\* been moved back to 'uploading'.
C9_Witness ==
  \E k \in DOMAIN chunks :
    chunks[k].status = "uploading" /\ chunks[k].uploadedUrl # NoUrl

\* The fields of the value chunkForUpload returns.
ReturnedFields == {"chunkId", "chunkIndex", "roomId", "studentId", "events", "blob"}

\* C10: chunkForUpload(i) finds the stored chunk with index i of the resolved
\* session; when that chunk is still stored at the status update, its status
\* becomes 'uploading' whatever it was, and the call returns the fields of the
\* chunk it found, without status and uploadedUrl.
C10_ChunkForUploadSetsUploading ==
  [][/\ (upl.pc # "update" /\ upl'.pc = "update") =>
          /\ upl'.chunk \in {chunks[k] : k \in DOMAIN chunks}
          /\ upl'.chunk.chunkIndex = upl'.chunkIndex
          /\ upl'.chunk.roomId = examRoomId'
     /\ (upl.pc = "update" /\ upl'.pc = "idle" /\ upl.chunk.chunkId \in DOMAIN chunks) =>
          /\ chunks'[upl.chunk.chunkId].status = "uploading"
          /\ resp'.op = "getChunkForUpload"
          /\ resp'.ok
          /\ DOMAIN resp'.value = ReturnedFields
          /\ \A f \in ReturnedFields : resp'.value[f] = upl.chunk[f]]_vars

\* C10 witness: chunkForUpload has just returned a chunk that had been
\* 'uploaded' before, and the stored status is 'uploading'.
C10_Witness ==
  /\ resp.op = "getChunkForUpload"
  /\ resp.ok
  /\ resp.value.chunkId \in DOMAIN chunks
  /\ chunks[resp.value.chunkId].status = "uploading"
  /\ chunks[resp.value.chunkId].uploadedUrl \in Urls


\* ------------------------------------------------- session: C11 .. C20
\* registerChunk has stored record k in this step (line 308 follows the put).
RegisterStep(k) == chunkMetadata' = Append(chunkMetadata, k)

\* Two records are chunks of the same session, subject and sequence index.
SameChunk(x, y) ==
  /\ x.roomId = y.roomId
  /\ x.studentId = y.studentId
  /\ x.chunkIndex = y.chunkIndex

\* The keys of the records of a room.
RoomKeys(st, roomId) == {k \in DOMAIN st : st[k].roomId = roomId}

Range(seq) == {seq[n] : n \in 1..Len(seq)}

\* C11: after a confirmUploaded (markChunkUploaded) call on an existing chunk,
\* whatever calls preceded it and whatever their refs, the chunk's status is
\* 'uploaded' and its stored ref is the ref this last call supplied.
C11_ConfirmUploadedLastRefWins ==
  [][(resp'.op = "markChunkUploaded" /\ resp'.ok) =>
       /\ chunks'[resp'.chunkId].status = "uploaded"
       /\ chunks'[resp'.chunkId].uploadedUrl = resp'.url]_vars

\* C12: the store never holds two records of the same (session, subject,
\* index); a registration leaves a 'stored' record without ref under its key,
\* and when a record of that session, subject and index was stored already the
\* registration replaces it: the session has as many records as before.
C12_OneRecordPerIndex ==
  [][/\ \A k1, k2 \in DOMAIN chunks' :
          SameChunk(chunks'[k1], chunks'[k2]) => k1 = k2
     /\ \A k \in DOMAIN chunks' :
          RegisterStep(k) =>
            /\ chunks'[k].status = "stored"
            /\ chunks'[k].uploadedUrl = NoUrl
            /\ (\E j \in DOMAIN chunks : SameChunk(chunks[j], chunks'[k])) =>
                 Cardinality(RoomKeys(chunks', chunks'[k].roomId))
                   = Cardinality(RoomKeys(chunks, chunks'[k].roomId))]_vars

\* C12 witness: an index of a session was registered twice, and the session
\* holds the one 'stored' record.
C12_Witness ==
  \E k \in DOMAIN chunks :
    /\ Cardinality({n \in 1..Len(chunkMetadata) : chunkMetadata[n] = k}) = 2
    /\ chunks[k].status = "stored"
    /\ RoomKeys(chunks, chunks[k].roomId) = {k}
    /\ chunks[k].roomId # NULL

\* The subsequence of a log, in its order, of the events with
\* i*D <= offset < (i+1)*D.
RECURSIVE EventsOfWindow(_, _)
EventsOfWindow(log, i) ==
  IF log = <<>> THEN <<>>
  ELSE LET t == Head(log).timestamp
       IN (IF i * CHUNK_DURATION_MS <= t /\ t < (i + 1) * CHUNK_DURATION_MS
           THEN <<Head(log)>> ELSE <<>>) \o EventsOfWindow(Tail(log), i)

\* C13: registerChunk(i, ...) stores as the chunk's events exactly the
\* subsequence of the event log, in append order, of the events whose offset t
\* satisfies i*D <= t < (i+1)*D.
C13_ChunkEventsAreWindow ==
  [][\A k \in DOMAIN chunks' :
       RegisterStep(k) =>
         chunks'[k].events = EventsOfWindow(events, chunks'[k].chunkIndex)]_vars

\* C13 witness: chunk 1 holds the event at offset D and nothing else, while
\* the log also has events at offset 0 and at offset 2*D.
C13_Witness ==
  \E k \in DOMAIN chunks :
    /\ chunks[k].chunkIndex = 1
    /\ Len(chunks[k].events) = 1
    /\ chunks[k].events[1].timestamp = CHUNK_DURATION_MS
    /\ \E n \in 1..Len(events) : events[n].timestamp = 2 * CHUNK_DURATION_MS
    /\ \E n \in 1..Len(events) : events[n].timestamp = 0

\* The index of the window an offset falls in.
Window(t) == t \div CHUNK_DURATION_MS

\* C14: every event appended to the session (since its initRecording) is
\* contained in the events of a chunk of the session registered afterwards
\* exactly when the chunk's index is that of the event's window.
C14_EventInExactlyItsChunk ==
  [][\A k \in DOMAIN chunks' :
       (/\ RegisterStep(k)
        /\ sessionLog.room # NULL
        /\ chunks'[k].roomId = sessionLog.room)
       => \A n \in 1..Len(sessionLog.events) :
            (sessionLog.events[n] \in Range(chunks'[k].events))
              <=> (Window(sessionLog.events[n].timestamp) = chunks'[k].chunkIndex)]_vars

\* getChunkList or getChunkForUpload comes back from chrome.storage.local.get
\* in this step.
Rehydrates ==
  \/ lst.pc = "storage" /\ resp'.op = "getChunkList"
  \/ upl.pc = "storage" /\ (upl'.pc = "update" \/ resp'.op = "getChunkForUpload")

\* C15: when, after initRecording(s, u) and a restart that emptied the memory,
\* getChunkList or getChunkForUpload looks for the session id in durable
\* storage, the id stored there is s.
C15_SessionResolvedAfterRestart ==
  [][(Rehydrates /\ sessionLog.room # NULL /\ examRoomId = NULL)
       => storageRoomId = sessionLog.room]_vars

\* C16: registerChunk stores a record only while a session is active.
C16_RegisterChunkNeedsSession ==
  [][\A k \in DOMAIN chunks' : RegisterStep(k) => isRecording]_vars

\* The index a lookup of getChunkForUpload in this step was made for.
LookupStep ==
  /\ upl.pc \in {"idle", "storage"}
  /\ \/ upl'.pc = "update"
     \/ resp'.op = "getChunkForUpload" /\ resp'.error # "no active exam room"

LookedUpIndex == IF upl'.pc = "update" THEN upl'.chunkIndex ELSE resp'.chunkIndex

\* C17: when chunkForUpload(i) has resolved its session and the session has no
\* stored chunk with index i, the call fails with the not-found error and no
\* record of the store changes.
C17_ChunkForUploadNotFound ==
  [][(/\ LookupStep
      /\ ~\E k \in DOMAIN chunks : /\ chunks[k].roomId = examRoomId'
                                   /\ chunks[k].chunkIndex = LookedUpIndex)
       => /\ resp'.op = "getChunkForUpload"
          /\ ~resp'.ok
          /\ resp'.error = "not found"
          /\ upl' = IdleUpload
          /\ chunks' = chunks]_vars

\* C17 witness: the call has failed with not found for a session that has a
\* chunk, with status 'uploaded', under the other index.
C17_Witness ==
  /\ resp.op = "getChunkForUpload"
  /\ ~resp.ok
  /\ resp.error = "not found"
  /\ examRoomId # NULL
  /\ \E k \in DOMAIN chunks : /\ chunks[k].roomId = examRoomId
                              /\ chunks[k].chunkIndex # resp.chunkIndex
                              /\ chunks[k].status = "uploaded"

\* getChunkForUpload comes back from chrome.storage.local.get in this step.
StorageStep ==
  /\ upl.pc = "storage"
  /\ (upl'.pc = "update" \/ resp'.op = "getChunkForUpload")

\* The answer is the error of line 353.
StateError(r) == r.op = "getChunkForUpload" /\ ~r.ok /\ r.error = "no active exam room"

\* C18: a chunkForUpload call that found no session id in memory and finds
\* none in durable storage fails with the state error; the call that fails so
\* (also after a failed read of the storage) has looked up no chunk and leaves
\* the store as it was; otherwise the id of the storage has been adopted.
C18_ChunkForUploadNoSession ==
  [][StorageStep =>
       /\ storageRoomId = NULL => StateError(resp')
       /\ StateError(resp') => (chunks' = chunks /\ upl' = IdleUpload)
       /\ storageRoomId # NULL => (StateError(resp') \/ examRoomId' = storageRoomId)]_vars

\* C18 witness: the call has failed with the state error, nothing being in
\* storage, while the store holds chunks.
C18_Witness ==
  /\ StateError(resp)
  /\ storageRoomId = NULL
  /\ examRoomId = NULL
  /\ DOMAIN chunks # {}

\* C19: a getChunkList call that resolved its session returns, for every chunk
\* of the session that is in the store when the list is read, an entry with
\* the status and the ref the store holds, that is those of the most recent
\* completed write; every write completed before the call is in the store then.
C19_ListReflectsLastWrite ==
  [][(resp'.op = "getChunkList" /\ resp'.roomId # NULL) =>
       /\ resp'.roomId = examRoomId'
       /\ \A k \in RoomKeys(chunks, resp'.roomId) :
            \E n \in 1..Len(resp'.value) :
              /\ resp'.value[n].chunkId = k
              /\ resp'.value[n].status = chunks[k].status
              /\ resp'.value[n].uploadedUrl = chunks[k].uploadedUrl
       /\ Len(resp'.value) = Cardinality(RoomKeys(chunks, resp'.roomId))]_vars

\* C19 witness: the list has an 'uploaded' chunk with the ref "url2" and an
\* 'uploading' chunk.
C19_Witness ==
  /\ resp.op = "getChunkList"
  /\ \E n \in 1..Len(resp.value) :
       resp.value[n].status = "uploaded" /\ resp.value[n].uploadedUrl = "url2"
  /\ \E n \in 1..Len(resp.value) : resp.value[n].status = "uploading"

\* C20: getChunkList never answers with an error; a call that finds no
\* session id in memory and none in durable storage (or cannot read it)
\* resolves no room, returns the empty list and leaves the store as it was.
C20_ListEmptyWithoutSession ==
  [][resp'.op = "getChunkList" =>
       /\ resp'.ok
       /\ lst.pc = "idle" => resp'.roomId = examRoomId
       /\ (lst.pc = "storage" /\ storageRoomId = NULL) => resp'.roomId = NULL
       /\ resp'.roomId = NULL => (resp'.value = <<>> /\ chunks' = chunks)]_vars

\* C20 witness: the empty list was returned, no room being resolved, while the
\* store holds chunks.
C20_Witness ==
  /\ resp.op = "getChunkList"
  /\ resp.ok
  /\ resp.roomId = NULL
  /\ resp.value = <<>>
  /\ DOMAIN chunks # {}

\* C21: the list getChunkList returns for the room it resolved has one
\* summary for each chunk stored under that room and none for a chunk of
\* another room, no summary carries the blob, and the summaries are in
\* ascending chunkIndex order.
C21_ListIsTheRoomsChunksInOrder ==
  [][(resp'.op = "getChunkList" /\ resp'.roomId # NULL) =>
       LET list == resp'.value
           room == resp'.roomId
       IN /\ room = examRoomId'
          /\ {list[n].chunkId : n \in 1..Len(list)} = RoomKeys(chunks, room)
          /\ Len(list) = Cardinality(RoomKeys(chunks, room))
          /\ \A n \in 1..Len(list) :
               /\ "blob" \notin DOMAIN list[n]
               /\ chunks[list[n].chunkId].roomId = room
               /\ list[n].chunkIndex = chunks[list[n].chunkId].chunkIndex
          /\ \A n, m \in 1..Len(list) :
               n < m => list[n].chunkIndex <= list[m].chunkIndex]_vars

\* C21 witness: the list has the two chunks of the room, which were registered
\* in descending chunkIndex order, while the store holds a chunk of another room.
C21_Witness ==
  /\ resp.op = "getChunkList"
  /\ resp.roomId # NULL
  /\ Len(resp.value) = 2
  /\ Len(chunkMetadata) = 2
  /\ chunkMetadata[1] = resp.value[2].chunkId
  /\ chunkMetadata[2] = resp.value[1].chunkId
  /\ resp.value[1].chunkIndex < resp.value[2].chunkIndex
  /\ \E k \in DOMAIN chunks : chunks[k].roomId # resp.roomId

\* C22: stopRecording, called while a recording is on, appends the end marker
\* 'exam_end' as the last entry of the event log and clears the flag
\* isRecording, so that the events it saves in the metadata record end with
\* that marker.
C22_EndMarkerIsLastEvent ==
  [][(resp'.op = "stopRecording" /\ isRecording) =>
       /\ ~isRecording'
       /\ events' # <<>>
       /\ events'[Len(events')].type = "exam_end"
       /\ examRoomId # NULL =>
            LET saved == metadata'[examRoomId].events
            IN saved # <<>> /\ saved[Len(saved)].type = "exam_end"]_vars

\* C23: when stopRecording returns for a session that initRecording(s, u)
\* started, the metadata record of s has status 'ended' and an end time (the
\* store keeps one record per roomId).
C23_MetadataEndedAfterStop ==
  [][(resp'.op = "stopRecording" /\ sessionLog.room # NULL) =>
       /\ sessionLog.room \in DOMAIN metadata'
       /\ metadata'[sessionLog.room].status = "ended"
       /\ "examEndTime" \in DOMAIN metadata'[sessionLog.room]]_vars

\* C24: initRecording(s, u) leaves the event log equal to the one start marker
\* with offset 0 and the chunk ledger empty, whatever the session before left
\* in them, sets isRecording, and saves a metadata record for s with status
\* 'recording' and that event log.
C24_InitRecordingResets ==
  [][\A r \in KeyRooms, st \in Students :
       InitRecording(r, st) =>
         /\ events' = <<[type |-> "exam_start", timestamp |-> 0]>>
         /\ chunkMetadata' = <<>>
         /\ isRecording'
         /\ examRoomId' = r
         /\ r \in DOMAIN metadata'
         /\ metadata'[r].status = "recording"
         /\ metadata'[r].events = events'
         /\ metadata'[r].studentId = st]_vars

\* C24 witness: a recording has just been started (four calls: start, event,
\* chunk, start) over a session that had an event and a registered chunk.
C24_Witness ==
  /\ calls = 4
  /\ isRecording
  /\ resp = NoResp
  /\ events = <<[type |-> "exam_start", timestamp |-> 0]>>
  /\ chunkMetadata = <<>>
  /\ Len(sessionLog.events) = 1
  /\ metadata[examRoomId].status = "recording"
  /\ \E k \in DOMAIN chunks : chunks[k].events # <<>>

\* C25: addEvent called while no recording is on returns nothing and leaves
\* the event log, the chunk store, the ledger and the metadata as they were.
C25_AddEventInactiveIsNoOp ==
  [][(resp'.op = "addEvent" /\ ~isRecording) =>
       /\ resp'.value = NULL
       /\ events' = events
       /\ chunks' = chunks
       /\ metadata' = metadata
       /\ chunkMetadata' = chunkMetadata
       /\ ~isRecording']_vars

\* C25 witness: addEvent returned nothing after the session was ended, the
\* store holding the session's chunk and its metadata record.
C25_Witness ==
  /\ resp.op = "addEvent"
  /\ resp.value = NULL
  /\ ~isRecording
  /\ examRoomId # NULL
  /\ metadata[examRoomId].status = "ended"
  /\ DOMAIN chunks # {}

\* C28: the chunk key is an injective function of (roomId, studentId,
\* chunkIndex): a registration under a key that is taken replaces the record
\* of the same room, student and index, never the record of another triple.
C28_ChunkKeyInjective ==
  [][\A k \in DOMAIN chunks :
       RegisterStep(k) =>
         /\ chunks[k].roomId = examRoomId
         /\ chunks[k].studentId = studentId
         /\ chunks[k].chunkIndex = chunks'[k].chunkIndex]_vars

\* C26: a store failure inside the sweep of a room ends in the catch of that
\* sweep: no caller gets an error (no call is answered, no call in flight is
\* touched), the store is as it was, and the timers and sweeps of the other
\* rooms, and the handles of all rooms, are as they were: a timer that was
\* pending still is, and fires.
C26_SweepFailureStaysInside ==
  [][\A t \in TimerIds :
       (timers[t].pc \in Running /\ timers'[t].mode = "failed") =>
         /\ timers'[t].pc = "ended"
         /\ resp' = NoResp
         /\ upl' = upl /\ lst' = lst /\ calls' = calls
         /\ chunks' = chunks
         /\ cleanupTimers' = cleanupTimers
         /\ \A u \in TimerIds \ {t} : timers'[u] = timers[u]]_vars

\* C26 witness: the sweep of one room failed and left the room's chunks, and
\* the sweep of another room has deleted all the chunks of its room.
C26_Witness ==
  \E t, u \in TimerIds :
    /\ timers[t].pc = "ended" /\ timers[t].mode = "failed"
    /\ timers[u].pc = "ended" /\ timers[u].mode = "all"
    /\ timers[t].room # timers[u].room
    /\ RoomKeys(chunks, timers[t].room) # {}
    /\ RoomKeys(chunks, timers[u].room) = {}

\* C27: in the UPLOAD_CHUNK flow a chunk's status becomes 'uploaded' only in
\* the step in which the upload of that chunk has returned success; when the
\* upload is refused or throws, the handler answers with a failure and writes
\* nothing: the status is neither put back to 'stored' nor set to 'uploaded',
\* it stays what getChunkForUpload made it, 'uploading'.
C27_UploadedOnlyAfterSuccess ==
  [][/\ \A k \in DOMAIN chunks' :
          (/\ chunks'[k].status = "uploaded"
           /\ (k \in DOMAIN chunks => chunks[k].status # "uploaded")) =>
            /\ resp'.op = "UPLOAD_CHUNK"
            /\ resp'.success
            /\ resp'.chunkId = k
            /\ \E n \in 1..Len(fetches) :
                 fetches[n].chunkId = k /\ fetches' = Without(fetches, n)
     /\ (Len(fetches') < Len(fetches) /\ resp'.op = "UPLOAD_CHUNK" /\ ~resp'.success) =>
          chunks' = chunks
     /\ (Len(fetches') > Len(fetches)) =>
          chunks'[fetches'[Len(fetches')].chunkId].status = "uploading"]_vars

\* C27 witness: the upload of the only chunk of the store failed, the handler
\* answered with a failure, and the chunk is 'uploading'.
C27_Witness ==
  /\ resp.op = "UPLOAD_CHUNK"
  /\ ~resp.success
  /\ fetches = <<>>
  /\ Cardinality(DOMAIN chunks) = 1
  /\ \A k \in DOMAIN chunks : chunks[k].status = "uploading"

\* The sequences that list every element of S once.
RECURSIVE Orders(_)
Orders(S) ==
  IF S = {} THEN {<<>>}
  ELSE UNION {{<<x>> \o o : o \in Orders(S \ {x})} : x \in S}

\* The record after the updates of the calls of order, one after the other.
RECURSIVE ApplyAll(_, _)
ApplyAll(rec, order) ==
  IF order = <<>> THEN rec
  ELSE ApplyAll(UpdatedChunk(rec, procs[Head(order)].status, procs[Head(order)].url),
                Tail(order))

\* The calls on chunk k that have resolved.
Resolved(k) == {p \in Procs : procs[p].pc = "done" /\ procs[p].chunkId = k}

\* C29: calls of updateChunkStatus on one chunk key are linearized, however
\* their store accesses interleave: the record is always the result of the
\* updates of the calls that have resolved, applied one after the other in
\* some order; no update is lost.
C29_UpdatesAreLinearized ==
  \A k \in DOMAIN chunks :
    \E order \in Orders(Resolved(k)) :
      chunks[k] = ApplyAll(StoredChunk, order)

\* C29 witness: two calls on the chunk, both in flight from before the
\* database was open, with different statuses and refs, have resolved.
C29_Witness ==
  /\ opens = 2
  /\ \A p \in {1, 2} : procs[p].pc = "done" /\ procs[p].chunkId = StoredChunk.chunkId
  /\ procs[1].status = "uploaded" /\ procs[1].url = "url1"
  /\ procs[2].status = "uploading" /\ procs[2].url = NoUrl
  /\ chunks[StoredChunk.chunkId].status = "uploaded"

\* C30: the database is opened at most once in a lifetime of the worker,
\* also when several first calls are in flight before the first open has
\* succeeded, and a call that started without a connection has one when it
\* accesses the store.
C30_OpenedAtMostOnce ==
  /\ opens <= 1
  /\ \A p \in InTx : db # 0

\* The session of the last initRecording has been ended by stopRecording and
\* no cleanup timer of its room has fired.
EndedBeforeSweep ==
  /\ ~isRecording
  /\ sessionLog.room # NULL
  /\ sessionLog.room \in DOMAIN metadata
  /\ metadata[sessionLog.room].status = "ended"
  /\ \A t \in TimerIds :
       timers[t].room = sessionLog.room => timers[t].pc \in {"pending", "cleared"}

\* C31: stopRecording leaves the room id and every chunk record as they were;
\* from then until a cleanup timer of the room fires, a getChunkList call
\* answers with all the stored chunks of the ended session and a
\* getChunkForUpload call returns the stored chunk of the index asked for,
\* blob included.  (A call made before the session was started, and still
\* waiting for chrome.storage, is not a call made after the end.)
C31_EndedSessionStillServed ==
  [][/\ resp'.op = "stopRecording" =>
          (examRoomId' = examRoomId /\ chunks' = chunks /\ timers' = timers)
     /\ (EndedBeforeSweep /\ resp'.op = "getChunkList" /\ lst.pc = "idle") =>
          /\ resp'.roomId = sessionLog.room
          /\ {resp'.value[n].chunkId : n \in 1..Len(resp'.value)}
               = RoomKeys(chunks, sessionLog.room)
     /\ (EndedBeforeSweep /\ resp'.op = "getChunkForUpload" /\ upl.pc # "storage") =>
          /\ resp'.ok <=> \E k \in RoomKeys(chunks, sessionLog.room) :
                            chunks[k].chunkIndex = (IF resp'.ok THEN upl.chunkIndex
                                                    ELSE resp'.chunkIndex)
          /\ resp'.ok =>
               /\ resp'.value.chunkId \in RoomKeys(chunks, sessionLog.room)
               /\ resp'.value.blob = chunks[resp'.value.chunkId].blob
               /\ resp'.value.events = chunks[resp'.value.chunkId].events]_vars

\* C31 witness: after the end of the session, with the cleanup of its room
\* scheduled and pending, getChunkForUpload has returned a chunk of the session.
C31_Witness ==
  /\ EndedBeforeSweep
  /\ CleanupPending(sessionLog.room)
  /\ resp.op = "getChunkForUpload"
  /\ resp.ok
  /\ resp.value.roomId = sessionLog.room
  /\ chunks[resp.value.chunkId].status = "uploading"

\* C32: markChunkUploaded (updateChunkStatus) on a key without a stored
\* record fails and puts no record, called directly or at the end of an
\* upload; only registerChunk adds a key to the store, so a chunk that a
\* sweep has deleted is not created again by a confirmation that arrives later.
C32_NoRecordNoUpdate ==
  [][/\ (resp'.op = "markChunkUploaded" /\ resp'.chunkId \notin DOMAIN chunks) =>
          (~resp'.ok /\ chunks' = chunks)
     /\ \A n \in 1..Len(fetches) :
          (/\ fetches' = Without(fetches, n)
           /\ resp'.op = "UPLOAD_CHUNK"
           /\ fetches[n].chunkId \notin DOMAIN chunks) =>
            (~resp'.success /\ chunks' = chunks)
     /\ \A k \in DOMAIN chunks' \ DOMAIN chunks : RegisterStep(k)]_vars

\* C32 witness: a sweep has deleted the chunk while its upload was under way;
\* the upload succeeded, the confirmation found no record and the handler
\* answered with the failure, the store staying empty.
C32_Witness ==
  /\ resp.op = "UPLOAD_CHUNK"
  /\ ~resp.success
  /\ resp.error = "not found"
  /\ DOMAIN chunks = {}
  /\ \E t \in TimerIds : timers[t].pc = "ended" /\ timers[t].mode = "all"

\* C33: the delete transaction of a sweep of room s (deleteChunksByRoom or
\* deleteUnuploadedChunks) leaves every chunk record whose roomId is not s
\* as it was.
C33_SweepLeavesOtherRooms ==
  [][\A t \in TimerIds :
       (timers[t].pc = "delete" /\ timers'[t].pc = "finish") =>
         \A k \in DOMAIN chunks :
           chunks[k].roomId # timers[t].room =>
             (k \in DOMAIN chunks' /\ chunks'[k] = chunks[k])]_vars

\* C34: initRecording for a room cancels or supersedes the cleanup that is
\* pending for the room: no sweep deletes, while the recording is on, a chunk
\* registered in that recording (every timer alive during a recording was
\* scheduled before the recording began).
C34_NewRecordingSupersedesCleanup ==
  [][isRecording => Deleted \cap Range(chunkMetadata) = {}]_vars

\* C35: the totalChunks that stopRecording returns for a recording that is on
\* is the number of distinct chunks registered since its initRecording (the
\* number of records the recording put in the store), also when an index
\* was registered more than once.
C35_TotalChunksCountsRecords ==
  [][(resp'.op = "stopRecording" /\ isRecording) =>
       resp'.totalChunks = Cardinality(Range(chunkMetadata))]_vars

\* C36: once EXAM_STARTED has answered with the flag set, the stored
\* examActive stays true as long as neither END_EXAM nor STOP_MONITORING is
\* received: no step of another message changes a stored flag that is true.
C36_FlagStaysTrueUntilEnd ==
  [][(phase = "started" /\ phase' = "started" /\ local.examActive = "true")
       => local'.examActive = "true"]_vars

\* C37: a violation report is POSTed only after a read of examActive that
\* returned true, and once END_EXAM has been handled (and no EXAM_STARTED has
\* set the flag again) no report is sent.
C37_NoReportAfterEndExam ==
  [][Len(posted') > Len(posted)
       => /\ posted'[Len(posted')].examActive = "true"
          /\ phase # "ended"]_vars

\* C38: after the listener has handled a message with sender URL u, the
\* cached API base URL is that of the development server if and only if u
\* contains 'localhost' or '127.0.0.1': nothing but a later message with a
\* sender URL changes it, the initializeFromStorage of the worker's start
\* included.
C38_CacheFollowsLastSender ==
  envLog # NULL =>
    (cachedApiBaseUrl = DevApi <=> (includes(envLog, localhost) \/ includes(envLog, loopback)))

\* C39: fetchWhitelist never rejects: whatever path it takes (no room id, a
\* response that is not ok, an API error, an exception, success), the step in
\* which it returns resolves and hands to the storage a whitelist that holds
\* every default domain.
C39_WhitelistHoldsDefaults ==
  [][resp'.op = "fetchWhitelist"
       => /\ ~resp'.rejected
          /\ local'.whitelist # NULL
          /\ \A i \in DOMAIN defaultWhitelist :
               \E j \in DOMAIN local'.whitelist : local'.whitelist[j] = defaultWhitelist[i]]_vars

\* C39 witness: fetchWhitelist has returned on its path of success, with a
\* domain of the server in the list after the defaults.
C39_Witness ==
  /\ resp.op = "fetchWhitelist"
  /\ resp.path = "success"
  /\ Len(local.whitelist) > Len(defaultWhitelist)

\* C40: a startRecording call made while a recording is in progress, or while
\* another call is still starting one, returns the failure 'Already
\* recording' and leaves startTime, examInfo and the recorded blobs as they are.
C40_OneRecordingAtATime ==
  [][\A e \in ExamInfos :
       (/\ ScreenStartRecording(e)
        /\ \/ recorder.isRecording
           \/ \E i \in StartIds : recorder.starts[i].pc # "idle")
       => /\ resp' = AlreadyRecording
          /\ recorder'.startTime = recorder.startTime
          /\ recorder'.examInfo = recorder.examInfo
          /\ recorder'.recordedBlobs = recorder.recordedBlobs]_vars

=============================================================================
